---- MODULE Spec2Model ----
(***************************************************************************)
(* A model of the galaxy-js simulation kernel: the Vec3 and Matrix3x3      *)
(* types, the Star and Galaxy entities, the traversal allStars, the force  *)
(* integrator updateGalaxies and the generator createRandomGalaxy.         *)
(*                                                                         *)
(* JavaScript numbers are modelled as exact rationals n/d extended with the *)
(* three non-finite values of IEEE arithmetic (d = 0): 1/0 is Infinity,    *)
(* -1/0 is -Infinity and 0/0 is NaN.  Rounding is not modelled, except for *)
(* the irrational values of Math.sqrt and Math.exp.                         *)
(***************************************************************************)
EXTENDS Integers, Sequences, FiniteSets, TLC

\* ------------------------------------------------------------------ numbers

Abs(i) == IF i < 0 THEN -i ELSE i

Sign(i) == IF i < 0 THEN -1 ELSE IF i > 0 THEN 1 ELSE 0

RECURSIVE Gcd(_, _)
Gcd(a, b) == IF b = 0 THEN a ELSE Gcd(b, a % b)

\* The number n/d in lowest terms with a positive denominator; n/0 is non-finite.
Num(n, d) ==
    IF d = 0 THEN [n |-> Sign(n), d |-> 0]
    ELSE LET g == Gcd(Abs(n), Abs(d))
         IN  [n |-> Sign(d) * (n \div g), d |-> Abs(d) \div g]

Whole(i) == [n |-> i, d |-> 1]

NaN == [n |-> 0, d |-> 0]

IsNumber(v) == DOMAIN v = {"n", "d"}

IsNaN(a) == a.d = 0 /\ a.n = 0

IsFinite(a) == a.d # 0

\* a + b
NumAdd(a, b) ==
    IF a.d # 0 /\ b.d # 0
    THEN LET g == Gcd(a.d, b.d)
         IN  Num(a.n * (b.d \div g) + b.n * (a.d \div g), (a.d \div g) * b.d)
    ELSE IF IsNaN(a) \/ IsNaN(b) THEN NaN
    ELSE IF a.d = 0 /\ b.d = 0 THEN (IF a.n = b.n THEN a ELSE NaN)
    ELSE IF a.d = 0 THEN a ELSE b

NumNeg(a) == [n |-> -a.n, d |-> a.d]

\* a - b
NumSub(a, b) == NumAdd(a, NumNeg(b))

\* a * b
NumMul(a, b) ==
    IF a.d = 0 \/ b.d = 0 THEN Num(a.n * b.n, 0)
    ELSE LET g1 == Gcd(Abs(a.n), b.d)
             g2 == Gcd(Abs(b.n), a.d)
         IN  [n |-> (a.n \div g1) * (b.n \div g2), d |-> (a.d \div g2) * (b.d \div g1)]

\* 1 / b
NumRecip(b) == IF b.n < 0 THEN [n |-> -b.d, d |-> -b.n] ELSE [n |-> b.d, d |-> b.n]

\* a / b
NumDiv(a, b) == NumMul(a, NumRecip(b))

\* a ** 2
NumSquare(a) == NumMul(a, a)

\* a < b; false when either is NaN
NumLess(a, b) ==
    IF IsNaN(a) \/ IsNaN(b) THEN FALSE
    ELSE IF a.d = 0 \/ b.d = 0
    THEN (IF a.d = 0 THEN a.n ELSE 0) < (IF b.d = 0 THEN b.n ELSE 0)
    ELSE a.n * b.d < b.n * a.d

\* The greatest integer at most a, and the least integer at least a (a finite).
NumFloor(a) == a.n \div a.d

NumCeil(a) == -((-a.n) \div a.d)

\* The truthiness of a number: neither 0 nor NaN.
Truthy(a) == ~IsNaN(a) /\ a # Whole(0)

RECURSIVE SqrtIter(_, _)
SqrtIter(n, x) ==
    LET y == (x + n \div x) \div 2
    IN  IF y >= x THEN x ELSE SqrtIter(n, y)

\* The integer square root of n >= 0.
ISqrt(n) == IF n = 0 THEN 0 ELSE SqrtIter(n, n)

IsSquare(n) == ISqrt(n) * ISqrt(n) = n

\* The precision Math.sqrt is modelled at where the root is irrational.
SqrtGrid == 100

\* Math.sqrt: exact on the squares of rationals, elsewhere the root rounded
\* down to a multiple of 1 / SqrtGrid.
MathSqrt(a) ==
    IF a.d = 0 THEN (IF a.n > 0 THEN a ELSE NaN)
    ELSE IF a.n < 0 THEN NaN
    ELSE IF IsSquare(a.n) /\ IsSquare(a.d) THEN [n |-> ISqrt(a.n), d |-> ISqrt(a.d)]
    ELSE Num(ISqrt((a.n \div a.d) * SqrtGrid * SqrtGrid
                   + ((a.n % a.d) * SqrtGrid * SqrtGrid) \div a.d), SqrtGrid)

\* Angles are numbers of half turns, so that Math.PI is the number 1 and the
\* sines and cosines of the multiples of a quarter turn are exact.
MathPI == Whole(1)

\* The quarter turns (0 to 3) of an angle that is a multiple of a quarter turn.
Quarter(a) ==
    CASE a.d = 1 -> (2 * a.n) % 4
      [] a.d = 2 -> a.n % 4

\* Math.sin and Math.cos, on the multiples of a quarter turn.
MathSin(a) == IF a.d = 0 THEN NaN ELSE Whole(<<0, 1, 0, -1>>[Quarter(a) + 1])

MathCos(a) == IF a.d = 0 THEN NaN ELSE Whole(<<1, 0, -1, 0>>[Quarter(a) + 1])

\* Math.asin, on the sines of the multiples of a quarter turn.
MathAsin(v) ==
    CASE IsNaN(v) -> NaN
      [] NumLess(Whole(1), v) \/ NumLess(v, Whole(-1)) -> NaN
      [] v = Whole(1) -> Num(1, 2)
      [] v = Whole(0) -> Whole(0)
      [] v = Whole(-1) -> Num(-1, 2)

\* Math.atan2(y, x), on the axes and the diagonals: the angle of the point
\* (x, y) in (-1, 1] half turns, 0 at the origin.
MathAtan2(y, x) ==
    CASE IsNaN(y) \/ IsNaN(x) -> NaN
      [] y.n = 0 /\ x.n >= 0 -> Whole(0)
      [] y.n = 0 /\ x.n < 0 -> Whole(1)
      [] x.n = 0 /\ y.n > 0 -> Num(1, 2)
      [] x.n = 0 /\ y.n < 0 -> Num(-1, 2)
      [] y.n # 0 /\ x.n # 0 /\ (y = x \/ y = NumNeg(x)) ->
            Num(Sign(y.n) * (IF x.n > 0 THEN 1 ELSE 3), 4)

\* Math.exp, on the exponents -2 * u of the model's draws u, to one decimal.
MathExp(a) ==
    CASE IsNaN(a) -> NaN
      [] a = Whole(0) -> Whole(1)
      [] a = Num(-1, 2) -> Num(6, 10)
      [] a = Whole(-1) -> Num(4, 10)
      [] a = Num(-3, 2) -> Num(2, 10)

\* ------------------------------------------------------------------ Vec3

Vec3(x, y, z) == [x |-> x, y |-> y, z |-> z]

\* A vector with integer components.
IVec(x, y, z) == Vec3(Whole(x), Whole(y), Whole(z))

Vec3Zero == Vec3(Whole(0), Whole(0), Whole(0))

magnitude(v) == MathSqrt(NumAdd(NumAdd(NumSquare(v.x), NumSquare(v.y)), NumSquare(v.z)))

sub(this, other) ==
    IF IsNumber(other)
    THEN Vec3(NumSub(this.x, other), NumSub(this.y, other), NumSub(this.z, other))
    ELSE Vec3(NumSub(this.x, other.x), NumSub(this.y, other.y), NumSub(this.z, other.z))

add(this, other) ==
    IF IsNumber(other)
    THEN Vec3(NumAdd(this.x, other), NumAdd(this.y, other), NumAdd(this.z, other))
    ELSE Vec3(NumAdd(this.x, other.x), NumAdd(this.y, other.y), NumAdd(this.z, other.z))

mul(this, other) ==
    IF IsNumber(other)
    THEN Vec3(NumMul(this.x, other), NumMul(this.y, other), NumMul(this.z, other))
    ELSE Vec3(NumMul(this.x, other.x), NumMul(this.y, other.y), NumMul(this.z, other.z))

div(this, other) ==
    IF IsNumber(other)
    THEN Vec3(NumDiv(this.x, other), NumDiv(this.y, other), NumDiv(this.z, other))
    ELSE Vec3(NumDiv(this.x, other.x), NumDiv(this.y, other.y), NumDiv(this.z, other.z))

\* normalize that returns a copy of a vector of magnitude 0.
normalizeGuarded(this) ==
    IF magnitude(this) = Whole(0) THEN Vec3(this.x, this.y, this.z)
    ELSE div(this, magnitude(this))

normalize(this) == div(this, magnitude(this))

copy(this) == Vec3(this.x, this.y, this.z)

\* Vec3.random(factor), its three Math.random() draws being rnd
random(rnd, factor) == mul(Vec3(rnd[1], rnd[2], rnd[3]), factor)

\* Vec3.randomCentered(factor), its three Math.random() draws being rnd
randomCentered(rnd, factor) == mul(sub(random(rnd, Whole(1)), Num(1, 2)), factor)

VecFinite(v) == IsFinite(v.x) /\ IsFinite(v.y) /\ IsFinite(v.z)

\* ------------------------------------------------------------------ Matrix3x3

\* The entries of a matrix are three rows of three numbers, data[i][j] being
\* the entry of row i and column j (counted from 1 where the code counts from 0).
identity ==
    << <<Whole(1), Whole(0), Whole(0)>>,
       <<Whole(0), Whole(1), Whole(0)>>,
       <<Whole(0), Whole(0), Whole(1)>> >>

\* Euler angles composed in the order x, y, z.
fromEulerXYZ(x, y, z) ==
    LET cx == MathCos(x) sx == MathSin(x)
        cy == MathCos(y) sy == MathSin(y)
        cz == MathCos(z) sz == MathSin(z)
    IN  << <<NumMul(cy, cz), NumNeg(NumMul(cy, sz)), sy>>,
           <<NumAdd(NumMul(cx, sz), NumMul(NumMul(sx, sy), cz)),
             NumSub(NumMul(cx, cz), NumMul(NumMul(sx, sy), sz)),
             NumNeg(NumMul(sx, cy))>>,
           <<NumSub(NumMul(sx, sz), NumMul(NumMul(cx, sy), cz)),
             NumAdd(NumMul(sx, cz), NumMul(NumMul(cx, sy), sz)),
             NumMul(cx, cy)>> >>

fromEuler(x, y, z) ==
    LET cx == MathCos(x) sx == MathSin(x)
        cy == MathCos(y) sy == MathSin(y)
        cz == MathCos(z) sz == MathSin(z)
    IN  << <<NumMul(cz, cy),
             NumSub(NumMul(NumMul(cz, sy), sx), NumMul(sz, cx)),
             NumAdd(NumMul(NumMul(cz, sy), cx), NumMul(sz, sx))>>,
           <<NumMul(sz, cy),
             NumAdd(NumMul(NumMul(sz, sy), sx), NumMul(cz, cx)),
             NumSub(NumMul(NumMul(sz, sy), cx), NumMul(cz, sx))>>,
           <<NumNeg(sy), NumMul(cy, sx), NumMul(cy, cx)>> >>

\* fromAxisAngle with t taken as the cosine itself.
fromAxisAngleCosine(axis, angle) ==
    LET x == axis.x y == axis.y z == axis.z
        c == MathCos(angle) s == MathSin(angle)
        t == c
    IN  << <<NumAdd(NumMul(NumMul(t, x), x), c),
             NumSub(NumMul(NumMul(t, x), y), NumMul(z, s)),
             NumAdd(NumMul(NumMul(t, x), z), NumMul(y, s))>>,
           <<NumAdd(NumMul(NumMul(t, y), x), NumMul(z, s)),
             NumAdd(NumMul(NumMul(t, y), y), c),
             NumSub(NumMul(NumMul(t, y), z), NumMul(x, s))>>,
           <<NumSub(NumMul(NumMul(t, z), x), NumMul(y, s)),
             NumAdd(NumMul(NumMul(t, z), y), NumMul(x, s)),
             NumAdd(NumMul(NumMul(t, z), z), c)>> >>

\* Matrix3x3.fromAxisAngle(axis, angle): the axis is used as given.
fromAxisAngle(axis, angle) ==
    LET x == axis.x y == axis.y z == axis.z
        c == MathCos(angle) s == MathSin(angle)
        t == NumSub(Whole(1), c)
    IN  << <<NumAdd(NumMul(NumMul(t, x), x), c),
             NumSub(NumMul(NumMul(t, x), y), NumMul(z, s)),
             NumAdd(NumMul(NumMul(t, x), z), NumMul(y, s))>>,
           <<NumAdd(NumMul(NumMul(t, y), x), NumMul(z, s)),
             NumAdd(NumMul(NumMul(t, y), y), c),
             NumSub(NumMul(NumMul(t, y), z), NumMul(x, s))>>,
           <<NumSub(NumMul(NumMul(t, z), x), NumMul(y, s)),
             NumAdd(NumMul(NumMul(t, z), y), NumMul(x, s)),
             NumAdd(NumMul(NumMul(t, z), z), c)>> >>

\* The matrix applied to vec as a column vector, row by row.
transformColumnVector(data, vec) ==
    Vec3(NumAdd(NumAdd(NumMul(data[1][1], vec.x), NumMul(data[1][2], vec.y)), NumMul(data[1][3], vec.z)),
         NumAdd(NumAdd(NumMul(data[2][1], vec.x), NumMul(data[2][2], vec.y)), NumMul(data[2][3], vec.z)),
         NumAdd(NumAdd(NumMul(data[3][1], vec.x), NumMul(data[3][2], vec.y)), NumMul(data[3][3], vec.z)))

transform(data, vec) ==
    Vec3(NumAdd(NumAdd(NumMul(data[1][1], vec.x), NumMul(data[2][1], vec.y)), NumMul(data[3][1], vec.z)),
         NumAdd(NumAdd(NumMul(data[1][2], vec.x), NumMul(data[2][2], vec.y)), NumMul(data[3][2], vec.z)),
         NumAdd(NumAdd(NumMul(data[1][3], vec.x), NumMul(data[2][3], vec.y)), NumMul(data[3][3], vec.z)))

\* Matrix3x3.mul with its operands exchanged.
Matrix3x3mulReversed(data, other) ==
    [i \in 1..3 |->
        [j \in 1..3 |->
            NumAdd(NumAdd(NumAdd(Whole(0), NumMul(other[i][1], data[1][j])),
                          NumMul(other[i][2], data[2][j])),
                   NumMul(other[i][3], data[3][j]))]]

\* Matrix3x3.mul: result[i][j] starts at 0 and takes this[i][k] * other[k][j]
\* for k = 0, 1, 2 in turn.
Matrix3x3mul(data, other) ==
    [i \in 1..3 |->
        [j \in 1..3 |->
            NumAdd(NumAdd(NumAdd(Whole(0), NumMul(data[i][1], other[1][j])),
                          NumMul(data[i][2], other[2][j])),
                   NumMul(data[i][3], other[3][j]))]]

\* toEuler with the arguments of its first Math.atan2 exchanged.
toEulerExchanged(data) ==
    Vec3(MathAtan2(data[3][3], data[3][2]),
         MathAsin(NumNeg(data[3][1])),
         MathAtan2(data[2][1], data[1][1]))

toEuler(data) ==
    Vec3(MathAtan2(data[3][2], data[3][3]),
         MathAsin(NumNeg(data[3][1])),
         MathAtan2(data[2][1], data[1][1]))

\* ------------------------------------------------------------------ entities

\* The data map of an entity: a set of <<key, value>> pairs.
NoData == {}

ColorData == {<<"color", "hsl(0, 50%, 80%)">>}

\* new Star(pos, vel, mass) with its data map.
Star(pos, vel, mass, data) == [pos |-> pos, vel |-> vel, mass |-> mass, data |-> data]

\* new Galaxy(vel, pos, rotation, mass) with its stars and its data map.
Galaxy(vel, pos, rotation, mass, stars, data) ==
    [vel |-> vel, pos |-> pos, rotation |-> rotation, mass |-> mass,
     stars |-> stars, data |-> data]

\* An argument that is not passed, and one passed as null.
Undefined == [undefined |-> TRUE]

Null == [null |-> TRUE]

\* !v for an argument that is an object, undefined or null.
Falsy(v) == v \in {Undefined, Null}

\* How a call ends: an error thrown to the caller, or a value returned.
Throw(message) == [threw |-> TRUE, error |-> message]

Return(value) == [threw |-> FALSE, value |-> value]

\* The Star constructor without its test of vel.
StarConstructorUnchecked(pos, vel, mass) ==
    IF Falsy(pos) THEN Throw("Position is required")
    ELSE Return(Star(pos, vel, IF mass = Undefined THEN Whole(0) ELSE mass, NoData))

\* constructor(pos, vel, mass = 0) of Star
StarConstructor(pos, vel, mass) ==
    IF Falsy(pos) THEN Throw("Position is required")
    ELSE IF Falsy(vel) THEN Throw("Velocity is required")
    ELSE Return(Star(pos, vel, IF mass = Undefined THEN Whole(0) ELSE mass, NoData))

\* The Galaxy constructor storing a mass of 1.
GalaxyConstructorUnitMass(vel, pos, rotation, mass) ==
    IF Falsy(vel) THEN Throw("Velocity is required")
    ELSE IF Falsy(pos) THEN Throw("Position is required")
    ELSE IF Falsy(rotation) THEN Throw("Rotation is required")
    ELSE Return(Galaxy(vel, pos, rotation, Whole(1), <<>>, NoData))

\* constructor(vel, pos, rotation, mass) of Galaxy
GalaxyConstructor(vel, pos, rotation, mass) ==
    IF Falsy(vel) THEN Throw("Velocity is required")
    ELSE IF Falsy(pos) THEN Throw("Position is required")
    ELSE IF Falsy(rotation) THEN Throw("Rotation is required")
    ELSE Return(Galaxy(vel, pos, rotation, mass, <<>>, NoData))

\* ------------------------------------------------------------------ constants

TIME_STEP == Num(5, 1000)

G == Num(1, 1000)

\* ------------------------------------------------------------------ state

VARIABLES
    worlds,     \* the galaxy arrays handed to updateGalaxies, one per observed run
    entry,      \* worlds as they were when updateGalaxies was entered
    pc,         \* position in updateGalaxies: idle, stars, galaxyVel, galaxyPos, done
    gi,         \* index of the galaxy the current loop is at
    si,         \* index of the star the allStars traversal is at
    returned,   \* what the call returned, once it has
    options,    \* the options record handed to createRandomGalaxy
    gpc,        \* position in createRandomGalaxy: idle, loop, done
    rnd,        \* the Math.random() draws of steps 4 of createRandomGalaxy
    targetNumberOfStars,
    galaxyRadius,
    newGalaxy,  \* <<galaxy>>, the galaxy createRandomGalaxy is building, once constructed
    rotationMatrix, \* the entries of the rotation matrix createRandomGalaxy precomputes
    localStars, \* the local positions createRandomStarInGalaxy computed, star by star
    iStar,      \* the loop counter i of createRandomGalaxy
    result,     \* <<galaxy>>, the galaxy createRandomGalaxy returned, once it has
    apc,        \* position in allStars: idle, loop, done
    ag,         \* index of the galaxy allStars is at
    ai,         \* index of the star allStars is at
    calls,      \* the calls allStars made to its visitor, in order
    ctorArgs,   \* the class and the arguments of a new expression
    made,       \* how the new expression ended, once it has
    vecs,       \* the Vec3 objects there are, by identity: vecs[id] is the x, y, z of object id
    vcall,      \* the last Vec3 method call: method, receiver, argument and what it returned
    arrays,     \* the JavaScript arrays there are, by identity: arrays[a] is the elements of array a
    given,      \* the 2D array the caller passes to new Matrix3x3, which the caller keeps
    mdata,      \* this.data of the matrix, 0 while there is no matrix
    taken,      \* the arrays toArray returned to the caller, in order
    writes,     \* how many elements were written, by set and by the caller
    mcall,      \* the last operation on the matrix or on the caller's arrays
    rargs,      \* how a rotation matrix is to be made and the vector to transform
    rpc,        \* idle until that matrix is made
    rmat,       \* its entries
    rout,       \* the last result read from it
    hosted,     \* the galaxy array a host passes to updateGalaxies call after call
    shuffled,   \* the same galaxies and stars in another order, passed by a second host
    perm,       \* that order: shuffled[i] is hosted[perm.g[i]], its stars reordered by perm.s
    origin,     \* hosted as it was before the first call
    ncalls,     \* the calls each host has made
    budget,     \* the calls each host makes
    component,  \* the web component: "simple" or "complete"
    element,    \* the fields of the component instance
    frames,     \* the animation-frame requests the browser holds: their ids
    attached,   \* the element is in the document
    hasUpdated, \* Lit has run the first update of the element
    lastEvent   \* the last callback the platform ran on the element

ivars == <<worlds, entry, pc, gi, si, returned>>

gvars ==
    <<options, gpc, rnd, targetNumberOfStars, galaxyRadius, newGalaxy, rotationMatrix, localStars,
      iStar, result>>

avars == <<apc, ag, ai, calls>>

evars == <<ctorArgs, made>>

vvars == <<vecs, vcall>>

mvars == <<arrays, given, mdata, taken, writes, mcall>>

rvars == <<rargs, rpc, rmat, rout>>

cvars == <<hosted, shuffled, perm, origin, ncalls, budget>>

wvars == <<component, element, frames, attached, hasUpdated, lastEvent>>

vars == <<ivars, gvars, avars, evars, vvars, mvars, rvars, cvars, wvars>>

\* The variables beside those of updateGalaxies, of createRandomGalaxy, of
\* allStars, of the constructors, of the Vec3 objects, of the Matrix3x3 object,
\* of the rotations, of the hosts and of the web components.
notIvars == <<gvars, avars, evars, vvars, mvars, rvars, cvars, wvars>>

notGvars == <<ivars, avars, evars, vvars, mvars, rvars, cvars, wvars>>

notAvars == <<ivars, gvars, evars, vvars, mvars, rvars, cvars, wvars>>

notEvars == <<ivars, gvars, avars, vvars, mvars, rvars, cvars, wvars>>

notVvars == <<ivars, gvars, avars, evars, mvars, rvars, cvars, wvars>>

notMvars == <<ivars, gvars, avars, evars, vvars, rvars, cvars, wvars>>

notRvars == <<ivars, gvars, avars, evars, vvars, mvars, cvars, wvars>>

notCvars == <<ivars, gvars, avars, evars, vvars, mvars, rvars, wvars>>

notWvars == <<ivars, gvars, avars, evars, vvars, mvars, rvars, cvars>>

\* ------------------------------------------------------------------ updateGalaxies

\* The sum of the masses of a sequence of stars.
RECURSIVE StarMassSum(_)
StarMassSum(stars) ==
    IF stars = <<>> THEN Whole(0) ELSE NumAdd(Head(stars).mass, StarMassSum(Tail(stars)))

\* StarLoop attracting by the galaxy's mass plus the masses of the stars it owns.
RECURSIVE StarLoopTotalMass(_, _, _, _)
StarLoopTotalMass(star, galaxies, k, totalAcceleration) ==
    IF k > Len(galaxies) THEN totalAcceleration
    ELSE LET otherGalaxy == galaxies[k]
             dPos == sub(otherGalaxy.pos, star.pos)
             distSq == NumSquare(magnitude(dPos))
             dist == MathSqrt(distSq)
             totalMass == NumAdd(otherGalaxy.mass, StarMassSum(otherGalaxy.stars))
             accelerationScalar == NumDiv(NumMul(G, totalMass), NumMul(dist, distSq))
             accelerationVec == mul(dPos, accelerationScalar)
         IN  IF distSq = Whole(0)
             THEN StarLoopTotalMass(star, galaxies, k + 1, totalAcceleration)
             ELSE StarLoopTotalMass(star, galaxies, k + 1, add(totalAcceleration, accelerationVec))

\* StarLoop without the zero-distance skip.
RECURSIVE StarLoopNoSkip(_, _, _, _)
StarLoopNoSkip(star, galaxies, k, totalAcceleration) ==
    IF k > Len(galaxies) THEN totalAcceleration
    ELSE LET otherGalaxy == galaxies[k]
             dPos == sub(otherGalaxy.pos, star.pos)
             distSq == NumSquare(magnitude(dPos))
             dist == MathSqrt(distSq)
             accelerationScalar == NumDiv(NumMul(G, otherGalaxy.mass), NumMul(dist, distSq))
             accelerationVec == mul(dPos, accelerationScalar)
         IN  StarLoopNoSkip(star, galaxies, k + 1, add(totalAcceleration, accelerationVec))

\* The inner loop of the star callback from otherGalaxy number k on:
\* totalAcceleration after the rest of the loop.
RECURSIVE StarLoop(_, _, _, _)
StarLoop(star, galaxies, k, totalAcceleration) ==
    IF k > Len(galaxies) THEN totalAcceleration
    ELSE LET otherGalaxy == galaxies[k]
             dPos == sub(otherGalaxy.pos, star.pos)
             distSq == NumSquare(magnitude(dPos))
             dist == MathSqrt(distSq)
             accelerationScalar == NumDiv(NumMul(G, otherGalaxy.mass), NumMul(dist, distSq))
             accelerationVec == mul(dPos, accelerationScalar)
         IN  IF distSq = Whole(0)
             THEN StarLoop(star, galaxies, k + 1, totalAcceleration)
             ELSE StarLoop(star, galaxies, k + 1, add(totalAcceleration, accelerationVec))

\* UpdateStar moving the star by its old velocity (explicit Euler).
UpdateStarOldVelocity(star, galaxies) ==
    LET totalAcceleration == StarLoop(star, galaxies, 1, Vec3Zero)
        deltaVelocity == mul(totalAcceleration, TIME_STEP)
        vel == add(star.vel, deltaVelocity)
        pos == add(star.pos, mul(star.vel, TIME_STEP))
    IN  [star EXCEPT !.vel = vel, !.pos = pos]

\* UpdateStar replacing the star by a newly constructed one.
UpdateStarFresh(star, galaxies) ==
    LET totalAcceleration == StarLoop(star, galaxies, 1, Vec3Zero)
        deltaVelocity == mul(totalAcceleration, TIME_STEP)
        vel == add(star.vel, deltaVelocity)
        pos == add(star.pos, mul(vel, TIME_STEP))
    IN  Star(pos, vel, Whole(0), NoData)

\* The callback updateGalaxies passes to allStars: the star after the update.
UpdateStar(star, galaxies) ==
    LET totalAcceleration == StarLoop(star, galaxies, 1, Vec3Zero)
        deltaVelocity == mul(totalAcceleration, TIME_STEP)
        vel == add(star.vel, deltaVelocity)
        pos == add(star.pos, mul(vel, TIME_STEP))
    IN  [star EXCEPT !.vel = vel, !.pos = pos]

\* GalaxyLoop weighting each term by the attracted galaxy's own mass.
RECURSIVE GalaxyLoopOwnMass(_, _, _, _)
GalaxyLoopOwnMass(g, galaxies, k, totalAcceleration) ==
    IF k > Len(galaxies) THEN totalAcceleration
    ELSE LET galaxy == galaxies[g]
             otherGalaxy == galaxies[k]
             dPos == sub(otherGalaxy.pos, galaxy.pos)
             distSq == NumSquare(magnitude(dPos))
             dist == MathSqrt(distSq)
             accelerationScalar == NumDiv(NumMul(G, galaxy.mass), NumMul(dist, distSq))
             accelerationVec == mul(dPos, accelerationScalar)
         IN  IF g = k
             THEN GalaxyLoopOwnMass(g, galaxies, k + 1, totalAcceleration)
             ELSE IF distSq = Whole(0)
             THEN GalaxyLoopOwnMass(g, galaxies, k + 1, totalAcceleration)
             ELSE GalaxyLoopOwnMass(g, galaxies, k + 1, add(totalAcceleration, accelerationVec))

\* GalaxyLoop dividing by the squared distance only.
RECURSIVE GalaxyLoopInverseSquare(_, _, _, _)
GalaxyLoopInverseSquare(g, galaxies, k, totalAcceleration) ==
    IF k > Len(galaxies) THEN totalAcceleration
    ELSE LET galaxy == galaxies[g]
             otherGalaxy == galaxies[k]
             dPos == sub(otherGalaxy.pos, galaxy.pos)
             distSq == NumSquare(magnitude(dPos))
             accelerationScalar == NumDiv(NumMul(G, otherGalaxy.mass), distSq)
             accelerationVec == mul(dPos, accelerationScalar)
         IN  IF g = k
             THEN GalaxyLoopInverseSquare(g, galaxies, k + 1, totalAcceleration)
             ELSE IF distSq = Whole(0)
             THEN GalaxyLoopInverseSquare(g, galaxies, k + 1, totalAcceleration)
             ELSE GalaxyLoopInverseSquare(g, galaxies, k + 1, add(totalAcceleration, accelerationVec))

\* GalaxyLoop attracting a galaxy by the galaxies after it in the array only.
RECURSIVE GalaxyLoopLaterOnly(_, _, _, _)
GalaxyLoopLaterOnly(g, galaxies, k, totalAcceleration) ==
    IF k > Len(galaxies) THEN totalAcceleration
    ELSE LET galaxy == galaxies[g]
             otherGalaxy == galaxies[k]
             dPos == sub(otherGalaxy.pos, galaxy.pos)
             distSq == NumSquare(magnitude(dPos))
             dist == MathSqrt(distSq)
             accelerationScalar == NumDiv(NumMul(G, otherGalaxy.mass), NumMul(dist, distSq))
             accelerationVec == mul(dPos, accelerationScalar)
         IN  IF k <= g
             THEN GalaxyLoopLaterOnly(g, galaxies, k + 1, totalAcceleration)
             ELSE IF distSq = Whole(0)
             THEN GalaxyLoopLaterOnly(g, galaxies, k + 1, totalAcceleration)
             ELSE GalaxyLoopLaterOnly(g, galaxies, k + 1, add(totalAcceleration, accelerationVec))

\* The inner loop of phase 2 for the galaxy at index g, from otherGalaxy number
\* k on.  Galaxies are objects: galaxy === otherGalaxy is equality of indices.
RECURSIVE GalaxyLoop(_, _, _, _)
GalaxyLoop(g, galaxies, k, totalAcceleration) ==
    IF k > Len(galaxies) THEN totalAcceleration
    ELSE LET galaxy == galaxies[g]
             otherGalaxy == galaxies[k]
             dPos == sub(otherGalaxy.pos, galaxy.pos)
             distSq == NumSquare(magnitude(dPos))
             dist == MathSqrt(distSq)
             accelerationScalar == NumDiv(NumMul(G, otherGalaxy.mass), NumMul(dist, distSq))
             accelerationVec == mul(dPos, accelerationScalar)
         IN  IF g = k
             THEN GalaxyLoop(g, galaxies, k + 1, totalAcceleration)
             ELSE IF distSq = Whole(0)
             THEN GalaxyLoop(g, galaxies, k + 1, totalAcceleration)
             ELSE GalaxyLoop(g, galaxies, k + 1, add(totalAcceleration, accelerationVec))

\* UpdateGalaxyVel moving the galaxy in the same iteration (phases 2 and 3 fused).
UpdateGalaxyVelFused(g, galaxies) ==
    LET totalAcceleration == GalaxyLoop(g, galaxies, 1, Vec3Zero)
        deltaVelocity == mul(totalAcceleration, TIME_STEP)
        vel == add(galaxies[g].vel, deltaVelocity)
    IN  [galaxies[g] EXCEPT !.vel = vel, !.pos = add(galaxies[g].pos, mul(vel, TIME_STEP))]

\* One iteration of phase 2: the galaxy at index g with its new velocity.
UpdateGalaxyVel(g, galaxies) ==
    LET totalAcceleration == GalaxyLoop(g, galaxies, 1, Vec3Zero)
        deltaVelocity == mul(totalAcceleration, TIME_STEP)
    IN  [galaxies[g] EXCEPT !.vel = add(galaxies[g].vel, deltaVelocity)]

\* UpdateGalaxyPos adding the velocity itself, not the velocity times TIME_STEP.
UpdateGalaxyPosWholeStep(galaxy) ==
    [galaxy EXCEPT !.pos = add(galaxy.pos, galaxy.vel)]

\* One iteration of phase 3: the galaxy with its new position.
UpdateGalaxyPos(galaxy) ==
    [galaxy EXCEPT !.pos = add(galaxy.pos, mul(galaxy.vel, TIME_STEP))]

\* allStars ending with the first galaxy that has stars.
RECURSIVE NextStarOneGalaxy(_, _, _)
NextStarOneGalaxy(galaxies, g, s) ==
    IF g > Len(galaxies) THEN <<0, 0>>
    ELSE IF s <= Len(galaxies[g].stars) THEN <<g, s>>
    ELSE IF s = 1 THEN NextStarOneGalaxy(galaxies, g + 1, 1)
    ELSE <<0, 0>>

\* allStars: the first star at or after star s of galaxy g, <<0, 0>> if none.
RECURSIVE NextStar(_, _, _)
NextStar(galaxies, g, s) ==
    IF g > Len(galaxies) THEN <<0, 0>>
    ELSE IF s <= Len(galaxies[g].stars) THEN <<g, s>>
    ELSE NextStar(galaxies, g + 1, 1)

Loc(p, g, s) == [pc |-> p, gi |-> g, si |-> s]

\* The loop tests: from a loop position, the position of the next iteration
\* that runs, through the loops that have ended.
RECURSIVE Settle(_, _)
Settle(galaxies, l) ==
    CASE l.pc = "stars" ->
            LET nx == NextStar(galaxies, l.gi, l.si)
            IN  IF nx = <<0, 0>> THEN Settle(galaxies, Loc("galaxyVel", 1, 0))
                ELSE Loc("stars", nx[1], nx[2])
      [] l.pc = "galaxyVel" ->
            IF l.gi > Len(galaxies) THEN Settle(galaxies, Loc("galaxyPos", 1, 0)) ELSE l
      [] l.pc = "galaxyPos" ->
            IF l.gi > Len(galaxies) THEN Loc("done", 0, 0) ELSE l
      [] OTHER -> l

\* The runs share one shape (galaxy and star counts), so one position serves all.
Goto(l) ==
    LET t == Settle(worlds[1], l)
    IN  /\ pc' = t.pc
        /\ gi' = t.gi
        /\ si' = t.si
        /\ returned' = IF t.pc = "done" THEN "undefined" ELSE returned

\* updateGalaxies(galaxies) is entered.
Call ==
    /\ pc = "idle"
    /\ entry' = worlds
    /\ worlds' = worlds
    /\ Goto(Loc("stars", 1, 1))
    /\ UNCHANGED notIvars

\* Phase 1: allStars calls the callback on the next star.
StarStep ==
    /\ pc = "stars"
    /\ worlds' = [r \in DOMAIN worlds |->
                    [worlds[r] EXCEPT ![gi].stars[si] = UpdateStar(@, worlds[r])]]
    /\ Goto(Loc("stars", gi, si + 1))
    /\ UNCHANGED <<entry, notIvars>>

\* Phase 2: the next galaxy's velocity.
GalaxyVelStep ==
    /\ pc = "galaxyVel"
    /\ worlds' = [r \in DOMAIN worlds |->
                    [worlds[r] EXCEPT ![gi] = UpdateGalaxyVel(gi, worlds[r])]]
    /\ Goto(Loc("galaxyVel", gi + 1, 0))
    /\ UNCHANGED <<entry, notIvars>>

\* Phase 3: the next galaxy's position.
GalaxyPosStep ==
    /\ pc = "galaxyPos"
    /\ worlds' = [r \in DOMAIN worlds |->
                    [worlds[r] EXCEPT ![gi] = UpdateGalaxyPos(@)]]
    /\ Goto(Loc("galaxyPos", gi + 1, 0))
    /\ UNCHANGED <<entry, notIvars>>

Next == Call \/ StarStep \/ GalaxyVelStep \/ GalaxyPosStep

\* ------------------------------------------------------------------ createRandomGalaxy

\* The defaults of the options.
DefaultMinStarCount == Whole(1500)

DefaultMinGalaxyRadius == Whole(1)

DefaultMaxInitialSpeed == Whole(4)

DefaultRewindTimeSteps == Whole(3)

DefaultInitialCollisionAvoidanceOffset == Num(15, 10)

\* An option that is not set is undefined: its key is absent from the record.
IsSet(o, key) == key \in DOMAIN o

\* The destructuring default of an option.
Opt(o, key, default) == IF IsSet(o, key) THEN o[key] ELSE default

\* maxStarCount ? ... : ..., and the same test on maxGalaxyRadius.
MaxGiven(o, key) == IsSet(o, key) /\ Truthy(o[key])

\* TargetNumberOfStars rounded down to an integer.
TargetNumberOfStarsFloor(o, draw) ==
    LET minStarCount == Opt(o, "minStarCount", DefaultMinStarCount)
    IN  IF MaxGiven(o, "maxStarCount")
        THEN Whole(NumFloor(NumAdd(NumMul(draw, NumSub(o.maxStarCount, minStarCount)), minStarCount)))
        ELSE minStarCount

\* targetNumberOfStars, draw being the Math.random() it takes when a maximum is given
TargetNumberOfStars(o, draw) ==
    LET minStarCount == Opt(o, "minStarCount", DefaultMinStarCount)
    IN  IF MaxGiven(o, "maxStarCount")
        THEN NumAdd(NumMul(draw, NumSub(o.maxStarCount, minStarCount)), minStarCount)
        ELSE minStarCount

\* galaxyRadius, likewise
GalaxyRadius(o, draw) ==
    LET minGalaxyRadius == Opt(o, "minGalaxyRadius", DefaultMinGalaxyRadius)
    IN  IF MaxGiven(o, "maxGalaxyRadius")
        THEN NumAdd(NumMul(draw, NumSub(o.maxGalaxyRadius, minGalaxyRadius)), minGalaxyRadius)
        ELSE minGalaxyRadius

\* The loop test with <= for <.
LoopTestInclusive(k, target) == NumLess(Whole(k), target) \/ Whole(k) = target

\* i < targetNumberOfStars
LoopTest(k, target) == NumLess(Whole(k), target)

\* LocalPosition without the division of the height by 5.
LocalPositionTallDisk(radius, draws) ==
    LET angularPosition == NumMul(NumMul(Whole(2), MathPI), draws[1])
        distanceFromCenter == NumMul(draws[2], radius)
        height ==
            NumMul(NumMul(draws[3], MathExp(NumMul(Whole(-2), NumDiv(distanceFromCenter, radius)))),
                   radius)
        heightFromPlane == IF NumLess(draws[4], Num(1, 2)) THEN NumNeg(height) ELSE height
    IN  Vec3(NumMul(distanceFromCenter, MathCos(angularPosition)),
             NumMul(distanceFromCenter, MathSin(angularPosition)),
             heightFromPlane)

\* createRandomStarInGalaxy, steps 1, 2 and 4: the star's position in the
\* galaxy's own coordinates, draws being its Math.random() results in order
\* (angle, distance, height, side of the plane).
LocalPosition(radius, draws) ==
    LET angularPosition == NumMul(NumMul(Whole(2), MathPI), draws[1])
        distanceFromCenter == NumMul(draws[2], radius)
        height ==
            NumMul(NumDiv(NumMul(draws[3],
                                 MathExp(NumMul(Whole(-2), NumDiv(distanceFromCenter, radius)))),
                          Whole(5)),
                   radius)
        heightFromPlane == IF NumLess(draws[4], Num(1, 2)) THEN NumNeg(height) ELSE height
    IN  Vec3(NumMul(distanceFromCenter, MathCos(angularPosition)),
             NumMul(distanceFromCenter, MathSin(angularPosition)),
             heightFromPlane)

\* createRandomStarInGalaxy, steps 3 and 4: the star's orbital velocity in the
\* galaxy's own coordinates.
LocalVelocity(galaxy, radius, draws) ==
    LET angularPosition == NumMul(NumMul(Whole(2), MathPI), draws[1])
        distanceFromCenter == NumMul(draws[2], radius)
        heightFromPlane == LocalPosition(radius, draws).z
        distanceToCenter3D ==
            MathSqrt(NumAdd(NumSquare(distanceFromCenter), NumSquare(heightFromPlane)))
        orbitalSpeed == MathSqrt(NumDiv(NumMul(galaxy.mass, G), distanceToCenter3D))
    IN  Vec3(NumMul(NumNeg(orbitalSpeed), MathSin(angularPosition)),
             NumMul(orbitalSpeed, MathCos(angularPosition)),
             Whole(0))

\* createRandomStarInGalaxy, step 5 and the construction of the star
createRandomStarInGalaxy(galaxy, matrix, radius, draws) ==
    LET worldPosition == add(transform(matrix, LocalPosition(radius, draws)), galaxy.pos)
        worldVelocity == add(transform(matrix, LocalVelocity(galaxy, radius, draws)), galaxy.vel)
    IN  StarConstructor(worldPosition, worldVelocity, Undefined).value

\* Math.random() yields a number in [0, 1).
RandomDraws == {Whole(0), Num(1, 4), Num(1, 2), Num(3, 4)}

\* The draws of one Vec3.random() call.
VecDraws == {<<Whole(0), Whole(0), Whole(0)>>, <<Num(1, 4), Num(1, 2), Num(3, 4)>>}

\* The draws of the Vec3.random() call for the rotation: angles of no turn
\* and of a quarter turn.
RotationDraws == {<<Whole(0), Whole(0), Whole(0)>>, <<Num(1, 2), Num(1, 2), Whole(0)>>}

\* The draws of steps 1 to 3 of createRandomGalaxy: those of the velocity, of
\* the offset and of the rotation.
GalaxyDraws ==
    { <<v, v, r>> : v \in VecDraws, r \in RotationDraws }

\* The draws of one createRandomStarInGalaxy call: the centre of the galaxy,
\* a star off the axis above the plane, a star on the axis below the plane.
StarDraws ==
    { <<Whole(0), Whole(0), Whole(0), Num(1, 4)>>,
      <<Num(1, 4), Num(1, 2), Num(1, 2), Num(3, 4)>>,
      <<Num(3, 4), Whole(0), Num(3, 4), Whole(0)>> }

\* createRandomGalaxy(options) up to the star loop: steps 1 to 4 and the
\* construction of the galaxy.
CreateBegin ==
    /\ gpc = "idle"
    /\ \E d \in GalaxyDraws :
       LET velDraws == d[1] offsetDraws == d[2] rotDraws == d[3] IN
       \E countDraw \in IF MaxGiven(options, "maxStarCount") THEN RandomDraws ELSE {Whole(0)} :
       \E radiusDraw \in IF MaxGiven(options, "maxGalaxyRadius") THEN RandomDraws ELSE {Whole(0)} :
          LET initialVelocity ==
                  randomCentered(velDraws, Opt(options, "maxInitialSpeed", DefaultMaxInitialSpeed))
              rewindVector ==
                  mul(initialVelocity, NumNeg(Opt(options, "rewindTimeSteps", DefaultRewindTimeSteps)))
              initialPosition ==
                  add(rewindVector,
                      randomCentered(offsetDraws,
                                     Opt(options, "initialCollisionAvoidanceOffset",
                                         DefaultInitialCollisionAvoidanceOffset)))
              rotation == random(rotDraws, MathPI)
              target == TargetNumberOfStars(options, countDraw)
              galaxy == GalaxyConstructor(initialVelocity, initialPosition, rotation, target).value
          IN  /\ rnd' = [count |-> countDraw, radius |-> radiusDraw]
              /\ targetNumberOfStars' = target
              /\ galaxyRadius' = GalaxyRadius(options, radiusDraw)
              /\ newGalaxy' = <<galaxy>>
              /\ rotationMatrix' = fromEuler(galaxy.rotation.x, galaxy.rotation.y, galaxy.rotation.z)
    /\ localStars' = <<>>
    /\ iStar' = 0
    /\ gpc' = "loop"
    /\ UNCHANGED <<options, result, notGvars>>

\* One iteration of the star loop: a star is created and pushed.
CreateStar ==
    /\ gpc = "loop"
    /\ LoopTest(iStar, targetNumberOfStars)
    /\ \E draws \in StarDraws :
          /\ newGalaxy' =
                <<[newGalaxy[1] EXCEPT !.stars =
                      Append(@, createRandomStarInGalaxy(newGalaxy[1], rotationMatrix,
                                                         galaxyRadius, draws))]>>
          /\ localStars' = Append(localStars, LocalPosition(galaxyRadius, draws))
    /\ iStar' = iStar + 1
    /\ UNCHANGED <<options, gpc, rnd, targetNumberOfStars, galaxyRadius, rotationMatrix, result,
                   notGvars>>

\* The loop ends and createRandomGalaxy returns the galaxy.
CreateReturn ==
    /\ gpc = "loop"
    /\ ~LoopTest(iStar, targetNumberOfStars)
    /\ result' = newGalaxy
    /\ gpc' = "done"
    /\ UNCHANGED <<options, rnd, targetNumberOfStars, galaxyRadius, newGalaxy, rotationMatrix,
                   localStars, iStar, notGvars>>

NextGen == CreateBegin \/ CreateStar \/ CreateReturn

\* ------------------------------------------------------------------ inputs

MaxGalaxies == 2

MaxStars == 2

\* Sequences over S of length at most n.
SeqsUpTo(S, n) == UNION {[1..k -> S] : k \in 0..n}

\* Positions at pairwise integer distances (2, 3 or 4), so that Math.sqrt is
\* exact on every distance of a step.
PosA == IVec(-1, 0, 0)

PosB == IVec(1, 0, 0)

PosC == IVec(0, 2, 2)

PosD == IVec(0, 2, -2)

\* Stars a host may hand over: one at a galaxy position, one away from all.
StarBodies ==
    { Star(PosA, IVec(0, 1, 0), Whole(0), NoData),
      Star(PosD, IVec(1, 0, -1), Whole(100), ColorData) }

\* Galaxies a host may hand over, before their stars.
GalaxyBodies ==
    { Galaxy(Vec3Zero, PosA, Vec3Zero, Whole(100), <<>>, NoData),
      Galaxy(Vec3Zero, PosB, Vec3Zero, Whole(100), <<>>, NoData),
      Galaxy(IVec(1, -1, 0), PosC, Vec3(Num(1, 2), Whole(1), Whole(3)), Whole(300), <<>>, ColorData) }

Galaxies ==
    { [b EXCEPT !.stars = st] : b \in GalaxyBodies, st \in SeqsUpTo(StarBodies, MaxStars) }

\* starCount: the number of stars of all galaxies.
RECURSIVE starCount(_)
starCount(galaxies) ==
    IF galaxies = <<>> THEN 0
    ELSE Len(Head(galaxies).stars) + starCount(Tail(galaxies))

\* The inputs: at most MaxGalaxies galaxies owning at most MaxStars stars.
Worlds == {w \in SeqsUpTo(Galaxies, MaxGalaxies) : starCount(w) <= MaxStars}

Idle ==
    /\ entry = worlds
    /\ pc = "idle"
    /\ gi = 0
    /\ si = 0
    /\ returned = "none"

\* createRandomGalaxy has not been called.
GenIdle ==
    /\ gpc = "idle"
    /\ rnd = [count |-> Whole(0), radius |-> Whole(0)]
    /\ targetNumberOfStars = Whole(0)
    /\ galaxyRadius = Whole(0)
    /\ newGalaxy = <<>>
    /\ rotationMatrix = identity
    /\ localStars = <<>>
    /\ iStar = 0
    /\ result = <<>>

\* allStars has not been called.
AllStarsIdle ==
    /\ apc = "idle"
    /\ ag = 0
    /\ ai = 0
    /\ calls = <<>>

\* No new expression is being evaluated.
NewIdle ==
    /\ ctorArgs = [class |-> "none"]
    /\ made = [pending |-> FALSE]

\* There are no Vec3 objects under observation.
VecIdle ==
    /\ vecs = <<>>
    /\ vcall = [op |-> "none"]

\* There is no Matrix3x3 object under observation.
MatrixIdle ==
    /\ arrays = <<>>
    /\ given = 0
    /\ mdata = 0
    /\ taken = <<>>
    /\ writes = 0
    /\ mcall = [op |-> "none"]

\* No rotation matrix is being made.
RotationIdle ==
    /\ rargs = [source |-> "none"]
    /\ rpc = "idle"
    /\ rmat = identity
    /\ rout = [op |-> "none"]

\* No host is calling updateGalaxies again and again.
HostsIdle ==
    /\ hosted = <<>>
    /\ shuffled = <<>>
    /\ perm = [g |-> <<>>, s |-> <<>>]
    /\ origin = <<>>
    /\ ncalls = 0
    /\ budget = 0

\* There is no web component.
WebIdle ==
    /\ component = "none"
    /\ element = [step |-> 0]
    /\ frames = {}
    /\ attached = FALSE
    /\ hasUpdated = FALSE
    /\ lastEvent = [handler |-> "none"]

\* Nothing but the operation under observation is going on.
Quiet ==
    /\ options = [minStarCount |-> Whole(0)]
    /\ GenIdle
    /\ AllStarsIdle
    /\ NewIdle
    /\ VecIdle
    /\ MatrixIdle
    /\ RotationIdle
    /\ HostsIdle
    /\ WebIdle

\* One run of updateGalaxies on any input.
Init ==
    /\ worlds \in {<<w>> : w \in Worlds}
    /\ Idle
    /\ Quiet

Spec == Init /\ [][Next]_vars

\* What another star may be instead: another body, or the same with another mass.
StarAlts(star) ==
    (StarBodies \ {star}) \cup {[star EXCEPT !.mass = NumAdd(@, Whole(100))]}

\* Two runs of updateGalaxies, side by side, on inputs of two stars or more
\* that differ in one star.
InitPair ==
    /\ \E w \in {x \in Worlds : starCount(x) >= 2} :
          \E g \in DOMAIN w : \E s \in DOMAIN w[g].stars : \E b \in StarAlts(w[g].stars[s]) :
              worlds = <<w, [w EXCEPT ![g].stars[s] = b]>>
    /\ Idle
    /\ Quiet

SpecPair == InitPair /\ [][Next]_vars

MaxStarCount == 2

\* Star counts a caller may ask for: the halves from 0 to MaxStarCount.
StarCounts == {Num(k, 2) : k \in 0..(2 * MaxStarCount)}

\* The options a caller may pass apart from the star counts.
OtherOptions ==
    { [minStarCount |-> Whole(0)],
      [minStarCount |-> Whole(0), minGalaxyRadius |-> Num(1, 2), maxGalaxyRadius |-> Num(3, 2)],
      [minStarCount |-> Whole(0), maxGalaxyRadius |-> Whole(2), maxInitialSpeed |-> Whole(2),
       rewindTimeSteps |-> Whole(1), initialCollisionAvoidanceOffset |-> Whole(1)],
      [minStarCount |-> Whole(0), minGalaxyRadius |-> Whole(2), maxGalaxyRadius |-> Whole(2)],
      [minStarCount |-> Whole(0), minGalaxyRadius |-> Num(1, 2), maxGalaxyRadius |-> Num(1, 2)] }

\* The options records: a minimum star count, with or without a maximum no less.
OptionsSet ==
    { [o EXCEPT !.minStarCount = lo] : o \in OtherOptions, lo \in StarCounts }
    \cup
    { [k \in DOMAIN c.o \cup {"maxStarCount"} |->
          IF k = "maxStarCount" THEN c.hi ELSE IF k = "minStarCount" THEN c.lo ELSE c.o[k]] :
        c \in {x \in [o : OtherOptions, lo : StarCounts, hi : StarCounts] : ~NumLess(x.hi, x.lo)} }

\* One call of createRandomGalaxy with any options.
InitGen ==
    /\ options \in OptionsSet
    /\ GenIdle
    /\ worlds = <<<<>>>>
    /\ Idle
    /\ HostsIdle
    /\ WebIdle
    /\ AllStarsIdle
    /\ NewIdle
    /\ VecIdle
    /\ MatrixIdle
    /\ RotationIdle

SpecGen == InitGen /\ [][NextGen]_vars

\* Math.sqrt is only applied to squares of rationals.
SqrtExact ==
    \A r \in DOMAIN worlds : \A g \in DOMAIN worlds[r] : \A k \in DOMAIN worlds[r] :
        LET d == sub(worlds[r][k].pos, worlds[r][g].pos)
            q == NumAdd(NumAdd(NumSquare(d.x), NumSquare(d.y)), NumSquare(d.z))
        IN  pc \in {"idle", "stars", "galaxyVel"} => IsSquare(q.n) /\ IsSquare(q.d)

\* ------------------------------------------------------------------ allStars

\* allStars(galaxies, func) is entered, galaxies being the input of the run.
AllStarsCall ==
    /\ apc = "idle"
    /\ apc' = "loop"
    /\ ag' = 1
    /\ ai' = 1
    /\ UNCHANGED <<calls, notAvars>>

\* The loops of allStars reach the next star and func is called on it with
\* the star, its galaxy (the galaxy and its place in galaxies) and the index i.
AllStarsVisit ==
    /\ apc = "loop"
    /\ LET galaxies == worlds[1]
           nx == NextStar(galaxies, ag, ai)
       IN  /\ nx # <<0, 0>>
           /\ calls' = Append(calls, [star |-> galaxies[nx[1]].stars[nx[2]],
                                      galaxy |-> galaxies[nx[1]],
                                      galaxyId |-> nx[1],
                                      index |-> nx[2] - 1])
           /\ ag' = nx[1]
           /\ ai' = nx[2] + 1
    /\ UNCHANGED <<apc, notAvars>>

\* The loops of allStars end.
AllStarsReturn ==
    /\ apc = "loop"
    /\ NextStar(worlds[1], ag, ai) = <<0, 0>>
    /\ apc' = "done"
    /\ UNCHANGED <<ag, ai, calls, notAvars>>

NextAllStars == AllStarsCall \/ AllStarsVisit \/ AllStarsReturn

\* One call of allStars on any input, with a visitor that leaves it alone.
InitAllStars ==
    /\ worlds \in {<<w>> : w \in Worlds}
    /\ Idle
    /\ Quiet

SpecAllStars == InitAllStars /\ [][NextAllStars]_vars

\* ------------------------------------------------------------------ new Star, new Galaxy

\* The vectors and the masses a caller may pass, or fail to pass.
VectorArgs == {Undefined, Null, Vec3Zero, IVec(1, -2, 3)}

MassArgs == {Undefined, Whole(0), Whole(5), Whole(-1), NaN}

\* new Star(pos, vel, mass) or new Galaxy(vel, pos, rotation, mass) is evaluated.
Construct ==
    /\ "pending" \in DOMAIN made /\ made.pending
    /\ made' = IF ctorArgs.class = "Star"
               THEN StarConstructor(ctorArgs.pos, ctorArgs.vel, ctorArgs.mass)
               ELSE GalaxyConstructor(ctorArgs.vel, ctorArgs.pos, ctorArgs.rotation, ctorArgs.mass)
    /\ UNCHANGED <<ctorArgs, notEvars>>

NextNew == Construct

\* One new expression with any arguments.
InitNew ==
    /\ ctorArgs \in [class : {"Star"}, pos : VectorArgs, vel : VectorArgs, mass : MassArgs]
                    \cup [class : {"Galaxy"}, vel : VectorArgs, pos : VectorArgs,
                          rotation : VectorArgs, mass : MassArgs]
    /\ made = [pending |-> TRUE]
    /\ worlds = <<<<>>>>
    /\ Idle
    /\ HostsIdle
    /\ WebIdle
    /\ options = [minStarCount |-> Whole(0)]
    /\ GenIdle
    /\ AllStarsIdle
    /\ VecIdle
    /\ MatrixIdle
    /\ RotationIdle

SpecNew == InitNew /\ [][NextNew]_vars

\* ------------------------------------------------------------------ Vec3 objects

\* The methods of a Vec3 object: those that take an argument and those that
\* take none.
VecBinary == {"add", "sub", "mul", "div"}

VecUnary == {"normalize", "copy", "magnitude"}

\* An argument or a result that is an object is a reference to it.
Ref(id) == [ref |-> id]

IsRef(v) == DOMAIN v = {"ref"}

\* What the method computes from the receiver and the argument.
VecMethod(op, this, other) ==
    CASE op = "add" -> add(this, other)
      [] op = "sub" -> sub(this, other)
      [] op = "mul" -> mul(this, other)
      [] op = "div" -> div(this, other)
      [] op = "normalize" -> normalize(this)
      [] op = "copy" -> copy(this)
      [] op = "magnitude" -> magnitude(this)

\* A method call that stores its result in the receiver and returns it.
VecInvokeInPlace(objs, op, this, other) ==
    LET value == VecMethod(op, objs[this], IF IsRef(other) THEN objs[other.ref] ELSE other)
    IN  IF op = "magnitude" THEN [objs |-> objs, ret |-> value]
        ELSE [objs |-> [objs EXCEPT ![this] = value], ret |-> Ref(this)]

\* The call this.op(other) among the objects objs: the objects after it and
\* what it returns, the number magnitude computes or the object made by the
\* method's new Vec3(...).
VecInvoke(objs, op, this, other) ==
    LET value == VecMethod(op, objs[this], IF IsRef(other) THEN objs[other.ref] ELSE other)
    IN  IF op = "magnitude" THEN [objs |-> objs, ret |-> value]
        ELSE [objs |-> Append(objs, value), ret |-> Ref(Len(objs) + 1)]

\* The most Vec3 objects a run makes.
MaxVecs == 3

\* The vectors the run starts from and the numbers passed to the methods.
VecInputs == {Vec3Zero, IVec(2, -1, 2), Vec3(Num(1, 2), Whole(0), Whole(-3))}

ScalarInputs == {Whole(0), Whole(2)}

\* The largest numerator and denominator of the components a method is
\* called on.
MaxComponent == 100

\* A vector to call a method on: each component is non-finite or a fraction
\* of small terms.
SmallVec(v) ==
    \A a \in {v.x, v.y, v.z} : a.d = 0 \/ (Abs(a.n) <= MaxComponent /\ a.d <= MaxComponent)

\* A method is called on an object, with an object (the receiver itself
\* included) or a number as its argument where it takes one.
VecCall ==
    /\ Len(vecs) < MaxVecs
    /\ \E this \in {id \in DOMAIN vecs : SmallVec(vecs[id])} :
       \E c \in [op : VecBinary,
                  other : {Ref(id) : id \in {i \in DOMAIN vecs : SmallVec(vecs[i])}}
                          \cup ScalarInputs]
                 \cup [op : VecUnary, other : {Undefined}] :
          LET after == VecInvoke(vecs, c.op, this, c.other)
          IN  /\ vecs' = after.objs
              /\ vcall' = [op |-> c.op, this |-> this, other |-> c.other, ret |-> after.ret]
    /\ UNCHANGED notVvars

NextVec == VecCall

\* One or two Vec3 objects of any values, and the calls made on them and on
\* their results.
InitVec ==
    /\ vecs \in [1..1 -> VecInputs] \cup [1..2 -> VecInputs]
    /\ vcall = [op |-> "none"]
    /\ worlds = <<<<>>>>
    /\ Idle
    /\ HostsIdle
    /\ WebIdle
    /\ options = [minStarCount |-> Whole(0)]
    /\ GenIdle
    /\ AllStarsIdle
    /\ NewIdle
    /\ MatrixIdle
    /\ RotationIdle

SpecVec == InitVec /\ [][NextVec]_vars

\* ------------------------------------------------------------------ Matrix3x3 object

\* The 2D array rows made anew among the arrays arrs: one array for each row
\* and one holding the references to them; the arrays after it and the
\* reference to the new 2D array.
NewArray2D(arrs, rows) ==
    [arrs |-> arrs \o rows \o << [i \in 1..Len(rows) |-> Ref(Len(arrs) + i)] >>,
     ref |-> Len(arrs) + Len(rows) + 1]

\* The elements of the 2D array a, row by row.
Array2D(arrs, a) == [i \in 1..Len(arrs[a]) |-> arrs[arrs[a][i].ref]]

\* A copy of the 2D array a that shares its rows: [...data].
ShallowCopy(arrs, a) == [arrs |-> Append(arrs, arrs[a]), ref |-> Len(arrs) + 1]

\* data.map((row) => [...row]): a new array of new rows.
DeepCopy(arrs, a) == NewArray2D(arrs, Array2D(arrs, a))

\* new Matrix3x3(data), data being the 2D array a: an error, or the arrays
\* after it and the reference this.data holds.
Matrix3x3Constructor(arrs, a) ==
    IF Len(arrs[a]) # 3 THEN Throw("Matrix must have 3 rows")
    ELSE IF \E i \in 1..3 : Len(arrs[arrs[a][i].ref]) # 3 THEN Throw("Row must have 3 columns")
    ELSE Return(DeepCopy(arrs, a))

get(arrs, data, row, col) == arrs[arrs[data][row].ref][col]

\* set writing the entry of row col and column row.
setTransposed(arrs, data, row, col, value) == [arrs EXCEPT ![arrs[data][col].ref][row] = value]

set(arrs, data, row, col, value) == [arrs EXCEPT ![arrs[data][row].ref][col] = value]

toArray(arrs, data) == DeepCopy(arrs, data)

\* The most element writes of a run, and the most toArray calls.
MaxWrites == 1

MaxTaken == 2

\* The 2D arrays a caller may pass: a rotation, an array of other entries, and
\* arrays that lack a row or a column.
ArrayInputs ==
    { fromEuler(Num(1, 2), Whole(0), Num(1, 2)),
      << <<Whole(1), Whole(-1), Whole(0)>>,
         <<Whole(0), Whole(1), Whole(1)>>,
         <<Whole(-1), Whole(0), Whole(1)>> >>,
      << <<Whole(1), Whole(0), Whole(0)>>, <<Whole(0), Whole(1), Whole(0)>> >>,
      << <<Whole(1), Whole(0), Whole(0)>>, <<Whole(0), Whole(1)>>, <<Whole(0), Whole(0), Whole(1)>> >> }

\* The entries written (row, column) and the values written.
Cells == {<<1, 1>>, <<2, 3>>, <<3, 1>>}

WriteValues == {Whole(1), Whole(-1)}

\* new Matrix3x3(given)
MatrixNew ==
    /\ mcall.op = "none"
    /\ LET out == Matrix3x3Constructor(arrays, given)
       IN  IF out.threw
           THEN /\ UNCHANGED <<arrays, mdata>>
                /\ mcall' = [op |-> "new", threw |-> TRUE]
           ELSE /\ arrays' = out.value.arrs
                /\ mdata' = out.value.ref
                /\ mcall' = [op |-> "new", threw |-> FALSE]
    /\ UNCHANGED <<given, taken, writes, notMvars>>

\* matrix.set(row, col, value)
MatrixSet ==
    /\ mdata # 0
    /\ writes < MaxWrites
    /\ \E cell \in Cells, value \in WriteValues :
          /\ arrays' = set(arrays, mdata, cell[1], cell[2], value)
          /\ mcall' = [op |-> "set", row |-> cell[1], col |-> cell[2], value |-> value,
                       was |-> get(arrays, mdata, cell[1], cell[2])]
    /\ writes' = writes + 1
    /\ UNCHANGED <<given, mdata, taken, notMvars>>

\* matrix.toArray()
MatrixToArray ==
    /\ mdata # 0
    /\ Len(taken) < MaxTaken
    /\ LET out == toArray(arrays, mdata)
       IN  /\ arrays' = out.arrs
           /\ taken' = Append(taken, out.ref)
           /\ mcall' = [op |-> "toArray", ret |-> Ref(out.ref)]
    /\ UNCHANGED <<given, mdata, writes, notMvars>>

\* matrix.get(row, col), matrix.transform(vec), matrix.mul(matrix) or
\* matrix.toEuler(): what the caller gets.
MatrixRead ==
    /\ mdata # 0
    /\ LET data == Array2D(arrays, mdata)
       IN  \/ \E cell \in Cells :
                mcall' = [op |-> "get", row |-> cell[1], col |-> cell[2],
                          ret |-> get(arrays, mdata, cell[1], cell[2])]
           \/ mcall' = [op |-> "transform", ret |-> transform(data, IVec(1, 2, 3))]
           \/ mcall' = [op |-> "mul", ret |-> Matrix3x3mul(data, data)]
           \/ mcall' = [op |-> "toEuler", ret |-> toEuler(data)]
    /\ UNCHANGED <<arrays, given, mdata, taken, writes, notMvars>>

\* The caller writes an element of an array it holds: the one it passed to
\* the constructor or one toArray returned.
CallerWrite ==
    /\ mdata # 0
    /\ writes < MaxWrites
    /\ \E target \in {given} \cup {taken[k] : k \in DOMAIN taken}, cell \in Cells, value \in WriteValues :
          /\ arrays' = [arrays EXCEPT ![arrays[target][cell[1]].ref][cell[2]] = value]
          /\ mcall' = [op |-> "write", target |-> target, row |-> cell[1], col |-> cell[2],
                       value |-> value]
    /\ writes' = writes + 1
    /\ UNCHANGED <<given, mdata, taken, notMvars>>

NextMatrix == MatrixNew \/ MatrixSet \/ MatrixToArray \/ MatrixRead \/ CallerWrite

\* A caller holding a 2D array, about to make a matrix of it.
InitMatrix ==
    /\ \E rows \in ArrayInputs :
          /\ arrays = NewArray2D(<<>>, rows).arrs
          /\ given = NewArray2D(<<>>, rows).ref
    /\ mdata = 0
    /\ taken = <<>>
    /\ writes = 0
    /\ mcall = [op |-> "none"]
    /\ worlds = <<<<>>>>
    /\ Idle
    /\ HostsIdle
    /\ WebIdle
    /\ options = [minStarCount |-> Whole(0)]
    /\ GenIdle
    /\ AllStarsIdle
    /\ NewIdle
    /\ VecIdle
    /\ RotationIdle

SpecMatrix == InitMatrix /\ [][NextMatrix]_vars

\* ------------------------------------------------------------------ rotations

\* Angles that are multiples of a quarter turn.
Angles == {Whole(0), Num(1, 2), Whole(1), Num(3, 2)}

\* The vectors transformed: finite ones and one with an infinite component.
RotationVecs == {IVec(1, 2, 3), Vec3(Num(-1, 2), Whole(0), Whole(4)), Vec3(Num(1, 0), Whole(0), Whole(0))}

\* A matrix that is no rotation and not symmetric.
PlainMatrix ==
    << <<Whole(1), Whole(2), Whole(3)>>,
       <<Whole(4), Whole(5), Whole(6)>>,
       <<Whole(7), Whole(8), Whole(10)>> >>

\* The axes of fromAxisAngle: the zero vector, a unit vector, two vectors
\* that are not normalized, and one with an infinite component.
AxisInputs ==
    {Vec3Zero, IVec(0, 0, 1), IVec(1, 2, 2), Vec3(Num(1, 2), Whole(-3), Whole(0)),
     Vec3(Num(1, 0), Whole(0), Whole(0))}

\* The matrix is made: Matrix3x3.fromEuler(x, y, z), Matrix3x3.identity(),
\* Matrix3x3.fromAxisAngle(axis, angle) or new Matrix3x3(PlainMatrix).
RotationMake ==
    /\ rpc = "idle"
    /\ rmat' = CASE rargs.source = "fromEuler" -> fromEuler(rargs.x, rargs.y, rargs.z)
                 [] rargs.source = "identity" -> identity
                 [] rargs.source = "fromAxisAngle" -> fromAxisAngle(rargs.axis, rargs.angle)
                 [] rargs.source = "array" -> PlainMatrix
    /\ rpc' = "made"
    /\ UNCHANGED <<rargs, rout, notRvars>>

\* matrix.transform(vec)
RotationTransform ==
    /\ rpc = "made"
    /\ rout' = [op |-> "transform", ret |-> transform(rmat, rargs.vec)]
    /\ UNCHANGED <<rargs, rpc, rmat, notRvars>>

\* matrix.toEuler(), on the matrices whose angles are multiples of a quarter turn
RotationToEuler ==
    /\ rpc = "made"
    /\ rargs.source \in {"fromEuler", "identity"}
    /\ rout' = [op |-> "toEuler", ret |-> toEuler(rmat)]
    /\ UNCHANGED <<rargs, rpc, rmat, notRvars>>

\* The right operands of mul: the identity, a rotation, and two matrices
\* that are no rotations and not symmetric.
OtherMatrices ==
    {identity, fromEuler(Num(1, 2), Whole(0), Whole(0)), PlainMatrix,
     << <<Whole(0), Whole(1), Whole(0)>>,
        <<Whole(2), Whole(0), Whole(1)>>,
        <<Whole(-1), Whole(3), Num(1, 2)>> >>}

\* matrix.mul(other).transform(vec), and other.transform(matrix.transform(vec))
RotationCompose ==
    /\ rpc = "made"
    /\ \E other \in OtherMatrices :
          rout' = [op |-> "compose",
                   other |-> other,
                   product |-> Matrix3x3mul(rmat, other),
                   ret |-> transform(Matrix3x3mul(rmat, other), rargs.vec),
                   chained |-> transform(other, transform(rmat, rargs.vec))]
    /\ UNCHANGED <<rargs, rpc, rmat, notRvars>>

NextRotation == RotationMake \/ RotationTransform \/ RotationToEuler \/ RotationCompose

\* A matrix to make from any angles, or from an axis and an angle, or the
\* identity, or a plain matrix, and a vector to transform.
InitRotation ==
    /\ rargs \in [source : {"fromEuler"}, x : Angles, y : Angles, z : Angles, vec : RotationVecs]
                 \cup [source : {"fromAxisAngle"}, axis : AxisInputs, angle : Angles,
                       vec : RotationVecs]
                 \cup [source : {"identity", "array"}, vec : RotationVecs]
    /\ rpc = "idle"
    /\ rmat = identity
    /\ rout = [op |-> "none"]
    /\ worlds = <<<<>>>>
    /\ Idle
    /\ HostsIdle
    /\ WebIdle
    /\ options = [minStarCount |-> Whole(0)]
    /\ GenIdle
    /\ AllStarsIdle
    /\ NewIdle
    /\ VecIdle
    /\ MatrixIdle

SpecRotation == InitRotation /\ [][NextRotation]_vars

\* ------------------------------------------------------------------ hosts

\* updateGalaxies from the loop position l on, to its return: the galaxies
\* as the call leaves them.
RECURSIVE RunFrom(_, _)
RunFrom(galaxies, l) ==
    CASE l.pc = "stars" ->
            RunFrom([galaxies EXCEPT ![l.gi].stars[l.si] = UpdateStar(@, galaxies)],
                    Settle(galaxies, Loc("stars", l.gi, l.si + 1)))
      [] l.pc = "galaxyVel" ->
            RunFrom([galaxies EXCEPT ![l.gi] = UpdateGalaxyVel(l.gi, galaxies)],
                    Settle(galaxies, Loc("galaxyVel", l.gi + 1, 0)))
      [] l.pc = "galaxyPos" ->
            RunFrom([galaxies EXCEPT ![l.gi] = UpdateGalaxyPos(@)],
                    Settle(galaxies, Loc("galaxyPos", l.gi + 1, 0)))
      [] l.pc = "done" -> galaxies

\* One whole call updateGalaxies(galaxies): the three phases in turn.
updateGalaxies(galaxies) == RunFrom(galaxies, Settle(galaxies, Loc("stars", 1, 1)))

\* n things in their order, and with the k-th and the next exchanged.
Identity(n) == [i \in 1..n |-> i]

Swap(n, k) == [i \in 1..n |-> IF i = k THEN k + 1 ELSE IF i = k + 1 THEN k ELSE i]

\* The orders the second host may hold w in: the order of w, w with two
\* neighbouring galaxies exchanged, and w with two neighbouring stars of one
\* galaxy exchanged.  Every order is reached by such exchanges in turn.
Reorderings(w) ==
    LET n == Len(w)
        same == [i \in 1..n |-> Identity(Len(w[i].stars))]
    IN  {[g |-> Identity(n), s |-> same]}
        \cup {[g |-> Swap(n, k), s |-> same] : k \in 1..(n - 1)}
        \cup UNION {{[g |-> Identity(n), s |-> [same EXCEPT ![i] = Swap(Len(w[i].stars), k)]] :
                        k \in 1..(Len(w[i].stars) - 1)} : i \in 1..n}

\* The galaxies of w in the order r.g, the stars of each in its order in r.s.
Reorder(w, r) ==
    [i \in 1..Len(w) |->
        LET galaxy == w[r.g[i]]
        IN  [galaxy EXCEPT !.stars = [j \in 1..Len(galaxy.stars) |->
                                         galaxy.stars[r.s[r.g[i]][j]]]]]

\* The most calls a host makes.
MaxCalls == 2

\* A host calls updateGalaxies(hosted), and the second host calls it on its
\* array of the same galaxies in the other order.
HostCall ==
    /\ ncalls < budget
    /\ hosted' = updateGalaxies(hosted)
    /\ shuffled' = updateGalaxies(shuffled)
    /\ ncalls' = ncalls + 1
    /\ UNCHANGED <<perm, origin, budget, notCvars>>

NextCalls == HostCall

\* The inputs on which call after call stays within the exact numbers: a
\* lone galaxy without stars, at rest or moving; a lone galaxy at rest with
\* stars that start at its centre and move along one axis; a lone moving
\* galaxy with a star that moves with it; and two heavy galaxies of
\* different masses at rest on the x axis, which fall through each other
\* along that axis.
RepeatWorlds ==
    {<<b>> : b \in GalaxyBodies}
    \cup {<<[b EXCEPT !.stars = st]>> :
             b \in {Galaxy(Vec3Zero, PosA, Vec3Zero, Whole(100), <<>>, NoData)},
             st \in SeqsUpTo({Star(PosA, IVec(0, 1, 0), Whole(0), NoData)}, MaxStars) \ {<<>>}}
    \cup {<<Galaxy(IVec(1, -1, 0), PosC, Vec3Zero, Whole(300),
                   <<Star(PosC, IVec(1, -1, 0), Whole(100), NoData)>>, ColorData)>>,
          <<Galaxy(Vec3Zero, PosA, Vec3Zero, Whole(80000000), <<>>, NoData),
            Galaxy(Vec3Zero, PosB, Vec3Zero, Whole(160000000), <<>>, NoData)>>}

\* Two hosts with the same galaxies in two orders: any input and one call,
\* or an input of RepeatWorlds and MaxCalls calls.
InitCalls ==
    /\ \/ hosted \in Worlds /\ budget = 1
       \/ hosted \in RepeatWorlds /\ budget = MaxCalls
    /\ perm \in Reorderings(hosted)
    /\ shuffled = Reorder(hosted, perm)
    /\ origin = hosted
    /\ ncalls = 0
    /\ worlds = <<<<>>>>
    /\ Idle
    /\ WebIdle
    /\ options = [minStarCount |-> Whole(0)]
    /\ GenIdle
    /\ AllStarsIdle
    /\ NewIdle
    /\ VecIdle
    /\ MatrixIdle
    /\ RotationIdle

SpecCalls == InitCalls /\ [][NextCalls]_vars

\* ------------------------------------------------------------------ web components

\* The step count past which the components start over with new galaxies.
StepLimit == 1500

\* The defaults of galaxy-count and max-galaxy-count, and the number of
\* galaxies of the simple component.
DefaultGalaxyCount == 3

DefaultMaxGalaxyCount == 3

SimpleGalaxyCount == 3

\* The fields of a new instance whose attributes are p.  The galaxies are
\* kept as the length of the array and the updateGalaxies calls the array
\* has been passed to; animationFrameId 0 stands for null.  The simple
\* component has no galaxyCount and maxGalaxyCount and never reads them.
NewElement(p) ==
    [galaxyCount |-> p.galaxyCount,
     maxGalaxyCount |-> p.maxGalaxyCount,
     galaxies |-> [count |-> 0, updates |-> 0],
     step |-> 0,
     animationFrameId |-> 0,
     resizeObserver |-> "undefined",
     canvas |-> "default"]

\* Math.floor(Math.random() * (maxGalaxyCount - galaxyCount) + galaxyCount)
actualGalaxyCount(el, draw) ==
    NumFloor(NumAdd(NumMul(draw, Whole(el.maxGalaxyCount - el.galaxyCount)),
                    Whole(el.galaxyCount)))

\* _initialiseGalaxies of the complete component: a new array of
\* actualGalaxyCount galaxies, and _step = 0.
initialiseGalaxies(el, draw) ==
    [el EXCEPT !.galaxies = [count |-> actualGalaxyCount(el, draw), updates |-> 0],
               !.step = 0]

\* _initialiseSimulation of the simple component: a new array of 3 galaxies.
initialiseSimulation(el) ==
    [el EXCEPT !.galaxies = [count |-> SimpleGalaxyCount, updates |-> 0]]

\* What requestAnimationFrame returns: an id no request had before.  Ids are
\* only compared, so the least id that is neither held by the browser nor
\* kept in _animationFrameId stands for it.
FreshId(el, fr) ==
    CHOOSE id \in 1..(Cardinality(fr) + 2) : id \notin fr \cup {el.animationFrameId}

\* _animate starting over only when the step count is past StepLimit + 1.
animateLateReset(c, el, fr, draw) ==
    LET updated == [el EXCEPT !.galaxies.updates = @ + 1]
        stepped == [updated EXCEPT !.step = @ + 1]
        reset == IF stepped.step > StepLimit + 1
                 THEN IF c = "complete" THEN initialiseGalaxies(stepped, draw)
                      ELSE initialiseSimulation([stepped EXCEPT !.step = 0])
                 ELSE stepped
        id == FreshId(el, fr)
    IN  [element |-> [reset EXCEPT !.animationFrameId = id],
         frames |-> fr \cup {id},
         received |-> updated.galaxies.updates]

\* _animate of component c: updateGalaxies on the galaxies, the drawing,
\* _step++, the start over past StepLimit, and the request of the next frame
\* (which the simple component makes before _step++ and the complete one
\* last: nothing runs in between).  received is the number of calls the
\* array passed to updateGalaxies has now been passed to it.
animate(c, el, fr, draw) ==
    LET updated == [el EXCEPT !.galaxies.updates = @ + 1]
        stepped == [updated EXCEPT !.step = @ + 1]
        reset == IF stepped.step > StepLimit
                 THEN IF c = "complete" THEN initialiseGalaxies(stepped, draw)
                      ELSE initialiseSimulation([stepped EXCEPT !.step = 0])
                 ELSE stepped
        id == FreshId(el, fr)
    IN  [element |-> [reset EXCEPT !.animationFrameId = id],
         frames |-> fr \cup {id},
         received |-> updated.galaxies.updates]

\* _startAnimation
startAnimation(c, el, fr, draw) ==
    IF el.animationFrameId = 0 THEN animate(c, el, fr, draw)
    ELSE [element |-> el, frames |-> fr, received |-> 0]

\* _stopAnimation: cancelAnimationFrame removes the request of that id, if
\* the browser still holds it.
stopAnimation(el, fr) ==
    IF el.animationFrameId # 0
    THEN [element |-> [el EXCEPT !.animationFrameId = 0], frames |-> fr \ {el.animationFrameId}]
    ELSE [element |-> el, frames |-> fr]

\* _handleResize, the canvas existing: it takes the size of the element.
handleResize(el, size) == [el EXCEPT !.canvas = size]

\* The attribute values of the complete component: the defaults and two
\* ranges of more than one number.
GalaxyCounts ==
    {[galaxyCount |-> DefaultGalaxyCount, maxGalaxyCount |-> DefaultMaxGalaxyCount],
     [galaxyCount |-> 2, maxGalaxyCount |-> 3],
     [galaxyCount |-> 1, maxGalaxyCount |-> 4]}

\* The sizes the element is laid out at.
CanvasSizes == {"narrow", "wide"}

\* A callback that ran to its end, having passed an array to updateGalaxies
\* for the received-th time (0: it made no call), or that threw.
Event(handler, received, threw) ==
    [handler |-> handler, received |-> received, threw |-> threw]

\* Lit runs the first update of the element, attached or not: firstUpdated.
FirstUpdated ==
    /\ component # "none"
    /\ ~hasUpdated
    /\ \E size \in CanvasSizes, draw \in RandomDraws :
          LET observed == [element EXCEPT !.resizeObserver = "observing"]
              ready == IF component = "complete"
                       THEN initialiseGalaxies(handleResize(observed, size), draw)
                       ELSE initialiseSimulation(observed)
              started == startAnimation(component, ready, frames, draw)
          IN  /\ element' = started.element
              /\ frames' = started.frames
              /\ lastEvent' = Event("firstUpdated", started.received, FALSE)
    /\ hasUpdated' = TRUE
    /\ UNCHANGED <<component, attached, notWvars>>

\* Lit runs updated of the complete component with galaxyCount or
\* maxGalaxyCount among the changed properties.
Updated ==
    /\ component = "complete"
    /\ hasUpdated
    /\ \E p \in GalaxyCounts, draw \in RandomDraws :
          element' = initialiseGalaxies([element EXCEPT !.galaxyCount = p.galaxyCount,
                                                         !.maxGalaxyCount = p.maxGalaxyCount],
                                        draw)
    /\ lastEvent' = Event("updated", 0, FALSE)
    /\ UNCHANGED <<component, frames, attached, hasUpdated, notWvars>>

\* The browser runs the callback of a request it holds: _animate.
FrameCallback ==
    /\ \E id \in frames, draw \in RandomDraws :
          LET ran == animate(component, element, frames \ {id}, draw)
          IN  /\ element' = ran.element
              /\ frames' = ran.frames
              /\ lastEvent' = Event("frame", ran.received, FALSE)
    /\ UNCHANGED <<component, attached, hasUpdated, notWvars>>

\* The resize observer runs its callback: _handleResize.
ResizeCallback ==
    /\ element.resizeObserver = "observing"
    /\ \E size \in CanvasSizes : element' = handleResize(element, size)
    /\ lastEvent' = Event("resize", 0, FALSE)
    /\ UNCHANGED <<component, frames, attached, hasUpdated, notWvars>>

\* The element is removed from the document: disconnectedCallback, which
\* ends in a TypeError where _resizeObserver is still undefined.
DisconnectedCallback ==
    /\ attached
    /\ attached' = FALSE
    /\ LET stopped == stopAnimation(element, frames)
       IN  /\ frames' = stopped.frames
           /\ IF stopped.element.resizeObserver = "undefined"
              THEN /\ element' = stopped.element
                   /\ lastEvent' = Event("disconnectedCallback", 0, TRUE)
              ELSE /\ element' = [stopped.element EXCEPT !.resizeObserver = "disconnected"]
                   /\ lastEvent' = Event("disconnectedCallback", 0, FALSE)
    /\ UNCHANGED <<component, hasUpdated, notWvars>>

NextWeb == FirstUpdated \/ Updated \/ FrameCallback \/ ResizeCallback \/ DisconnectedCallback

\* A component of either kind was constructed and attached to the document.
InitWeb ==
    /\ component \in {"simple", "complete"}
    /\ element \in {NewElement(p) : p \in IF component = "complete" THEN GalaxyCounts
                                           ELSE {[galaxyCount |-> DefaultGalaxyCount,
                                                  maxGalaxyCount |-> DefaultMaxGalaxyCount]}}
    /\ frames = {}
    /\ attached = TRUE
    /\ hasUpdated = FALSE
    /\ lastEvent = [handler |-> "none"]
    /\ worlds = <<<<>>>>
    /\ Idle
    /\ HostsIdle
    /\ options = [minStarCount |-> Whole(0)]
    /\ GenIdle
    /\ AllStarsIdle
    /\ NewIdle
    /\ VecIdle
    /\ MatrixIdle
    /\ RotationIdle

SpecWeb == InitWeb /\ [][NextWeb]_vars

\* ------------------------------------------------------------------ claims

Runs == DOMAIN worlds

GalaxyIdx(r) == DOMAIN worlds[r]

StarIdx(r, g) == DOMAIN worlds[r][g].stars

\* G*M*(P - p)/|P - p|^3, the acceleration at p towards a mass M at P, taken
\* as zero when P = p.
Pull(P, M, p) ==
    IF P = p THEN Vec3Zero
    ELSE LET r == sub(P, p)
             n == magnitude(r)
             cube == NumMul(NumMul(n, n), n)
             GM == NumMul(G, M)
         IN  Vec3(NumDiv(NumMul(GM, r.x), cube),
                  NumDiv(NumMul(GM, r.y), cube),
                  NumDiv(NumMul(GM, r.z), cube))

\* The sum of the pulls at p of the galaxies with index in idx.
RECURSIVE PullSum(_, _, _)
PullSum(galaxies, idx, p) ==
    IF idx = {} THEN Vec3Zero
    ELSE LET k == CHOOSE k \in idx : TRUE
         IN  add(Pull(galaxies[k].pos, galaxies[k].mass, p),
                 PullSum(galaxies, idx \ {k}, p))

\* C1: until every star has been updated and every galaxy velocity recomputed
\* (phases 1 and 2), every galaxy is at the position it had when the call
\* began, so every acceleration term is computed from those positions.
C1_StartPositions ==
    pc \in {"stars", "galaxyVel"} =>
        \A r \in Runs : \A g \in GalaxyIdx(r) : worlds[r][g].pos = entry[r][g].pos

\* C1 witness: in phase 2, with a star already moved and a galaxy velocity
\* already rewritten, another galaxy still to come.
C1_Witness ==
    /\ pc = "galaxyVel"
    /\ gi = 2
    /\ worlds[1][1].vel # entry[1][1].vel
    /\ \E g \in GalaxyIdx(1) : \E s \in StarIdx(1, g) :
          worlds[1][g].stars[s].pos # entry[1][g].stars[s].pos

\* C2: one call sets each star's velocity to vel + dt * (sum over every galaxy,
\* the star's own included, of G*M*(P - pos)/|P - pos|^3), positions as at the
\* start of the call, and its position to pos + dt * (the new velocity).
C2_StarUpdate ==
    pc = "done" =>
        \A r \in Runs : \A g \in GalaxyIdx(r) : \A s \in StarIdx(r, g) :
            LET old == entry[r][g].stars[s]
                new == worlds[r][g].stars[s]
                a == PullSum(entry[r], DOMAIN entry[r], old.pos)
                v == add(old.vel, mul(a, TIME_STEP))
            IN  /\ new.vel = v
                /\ new.pos = add(old.pos, mul(v, TIME_STEP))

\* C2 witness: a call has returned on two galaxies at different positions and
\* a star that is at neither, and the star's velocity has changed.
C2_Witness ==
    /\ pc = "done"
    /\ Len(entry[1]) = 2
    /\ entry[1][1].pos # entry[1][2].pos
    /\ \E s \in StarIdx(1, 1) :
          /\ \A k \in GalaxyIdx(1) : entry[1][k].pos # entry[1][1].stars[s].pos
          /\ worlds[1][1].stars[s].vel # entry[1][1].stars[s].vel

\* C3: one call sets each galaxy's velocity to vel + dt * (sum over the other
\* galaxies h of G*M_h*(P_h - P_g)/|P_h - P_g|^3) and its position to
\* pos + dt * (the new velocity).
C3_GalaxyUpdate ==
    pc = "done" =>
        \A r \in Runs : \A g \in GalaxyIdx(r) :
            LET old == entry[r][g]
                new == worlds[r][g]
                a == PullSum(entry[r], DOMAIN entry[r] \ {g}, old.pos)
                v == add(old.vel, mul(a, TIME_STEP))
            IN  /\ new.vel = v
                /\ new.pos = add(old.pos, mul(v, TIME_STEP))

\* C3 witness: a call has returned on galaxies of different masses at
\* different positions, one of them moving when the call began.
C3_Witness ==
    /\ pc = "done"
    /\ \E g, h \in GalaxyIdx(1) :
          /\ entry[1][g].pos # entry[1][h].pos
          /\ entry[1][g].mass # entry[1][h].mass
          /\ entry[1][g].vel # Vec3Zero
          /\ worlds[1][g].vel # entry[1][g].vel

\* The acceleration at p towards a mass M at P # p.
PullApart(P, M, p) ==
    LET r == sub(P, p)
        n == magnitude(r)
    IN  mul(r, NumDiv(NumMul(G, M), NumMul(n, NumMul(n, n))))

RECURSIVE PullApartSum(_, _, _)
PullApartSum(galaxies, idx, p) ==
    IF idx = {} THEN Vec3Zero
    ELSE LET k == CHOOSE k \in idx : TRUE
         IN  add(PullApartSum(galaxies, idx \ {k}, p),
                 PullApart(galaxies[k].pos, galaxies[k].mass, p))

\* The galaxies of a run that were not at position p when the call began.
Apart(r, p) == {k \in DOMAIN entry[r] : entry[r][k].pos # p}

BodyFinite(b) == VecFinite(b.pos) /\ VecFinite(b.vel)

\* C4: coincident positions are skipped: no position or velocity ever becomes
\* non-finite, and when the call has returned, a star that began at a galaxy's
\* position and a galaxy that began at another galaxy's position have the
\* velocity and position that the galaxies elsewhere alone determine.
C4_CoincidentSkipped ==
    /\ \A r \in Runs : \A g \in GalaxyIdx(r) :
          /\ BodyFinite(worlds[r][g])
          /\ \A s \in StarIdx(r, g) : BodyFinite(worlds[r][g].stars[s])
    /\ pc = "done" =>
          \A r \in Runs : \A g \in GalaxyIdx(r) :
              /\ (\E h \in GalaxyIdx(r) \ {g} : entry[r][h].pos = entry[r][g].pos) =>
                    LET old == entry[r][g]
                        v == add(old.vel,
                                 mul(PullApartSum(entry[r], Apart(r, old.pos), old.pos), TIME_STEP))
                    IN  /\ worlds[r][g].vel = v
                        /\ worlds[r][g].pos = add(old.pos, mul(v, TIME_STEP))
              /\ \A s \in StarIdx(r, g) :
                    (\E h \in GalaxyIdx(r) : entry[r][h].pos = entry[r][g].stars[s].pos) =>
                        LET old == entry[r][g].stars[s]
                            v == add(old.vel,
                                     mul(PullApartSum(entry[r], Apart(r, old.pos), old.pos), TIME_STEP))
                        IN  /\ worlds[r][g].stars[s].vel = v
                            /\ worlds[r][g].stars[s].pos = add(old.pos, mul(v, TIME_STEP))

\* C4 witness: a call has returned on two galaxies at one position, one of them
\* owning a star at that position too.
C4_Witness ==
    /\ pc = "done"
    /\ Len(entry[1]) = 2
    /\ entry[1][1].pos = entry[1][2].pos
    /\ \E s \in StarIdx(1, 1) : entry[1][1].stars[s].pos = entry[1][1].pos

\* The position, velocity and mass of a galaxy.
GalaxyBody(galaxy) == [pos |-> galaxy.pos, vel |-> galaxy.vel, mass |-> galaxy.mass]

\* C5: no star-star coupling: of two runs on inputs with the same galaxies
\* (position, velocity, mass), a star that is the same in both inputs has the
\* same velocity and position in both after the call, however the other stars
\* differ.
C5_NoStarCoupling ==
    (/\ pc = "done"
     /\ Len(worlds) = 2
     /\ \A k \in DOMAIN entry[1] : GalaxyBody(entry[1][k]) = GalaxyBody(entry[2][k])) =>
        \A g \in GalaxyIdx(1) : \A s \in StarIdx(1, g) :
            entry[1][g].stars[s] = entry[2][g].stars[s] =>
                /\ worlds[1][g].stars[s].vel = worlds[2][g].stars[s].vel
                /\ worlds[1][g].stars[s].pos = worlds[2][g].stars[s].pos

\* C5 witness: two runs have returned whose inputs agree on a star, which has
\* been accelerated, and differ in the position and mass of another star.
C5_Witness ==
    /\ pc = "done"
    /\ Len(worlds) = 2
    /\ \E g \in GalaxyIdx(1) : \E s \in StarIdx(1, g) :
          /\ entry[1][g].stars[s] = entry[2][g].stars[s]
          /\ worlds[1][g].stars[s].vel # entry[1][g].stars[s].vel
    /\ \E g \in GalaxyIdx(1) : \E s \in StarIdx(1, g) :
          /\ entry[1][g].stars[s].pos # entry[2][g].stars[s].pos
          /\ entry[1][g].stars[s].mass # entry[2][g].stars[s].mass

\* The two-body scenario: two star-less galaxies of mass 100 at rest at
\* (-1, 0, 0) and (1, 0, 0).
TwoBody(w) ==
    /\ Len(w) = 2
    /\ {w[1].pos, w[2].pos} = {IVec(-1, 0, 0), IVec(1, 0, 0)}
    /\ \A i \in 1..2 : w[i].mass = Whole(100) /\ w[i].vel = Vec3Zero /\ w[i].stars = <<>>

\* C7: in the two-body scenario one call gives each galaxy the velocity
\* 0.000125 along x towards the other galaxy and displaces it by 6.25e-7 along
\* x towards the other galaxy, y and z staying 0.
C7_TwoBody ==
    \A r \in Runs :
        (pc = "done" /\ TwoBody(entry[r])) =>
            \A i \in 1..2 :
                LET toward == IF entry[r][i].pos.x.n < 0 THEN Whole(1) ELSE Whole(-1)
                IN  /\ worlds[r][i].vel = Vec3(NumMul(toward, Num(125, 1000000)), Whole(0), Whole(0))
                    /\ magnitude(worlds[r][i].vel) = Num(125, 1000000)
                    /\ sub(worlds[r][i].pos, entry[r][i].pos) =
                          Vec3(NumMul(toward, Num(625, 1000000000)), Whole(0), Whole(0))

\* C7 witness: the call has returned in the two-body scenario.
C7_Witness == pc = "done" /\ TwoBody(entry[1])

\* A star or a galaxy without its position and velocity.
StarFrame(star) == [mass |-> star.mass, data |-> star.data]

GalaxyFrame(galaxy) ==
    [mass |-> galaxy.mass, rotation |-> galaxy.rotation, data |-> galaxy.data,
     stars |-> [s \in DOMAIN galaxy.stars |-> StarFrame(galaxy.stars[s])]]

\* C8: updateGalaxies changes only positions and velocities: the galaxy
\* sequence, each galaxy's mass, rotation, data and stars sequence, and each
\* star's mass and data stay as they were at the call, and the call returns
\* undefined.
C8_Frame ==
    /\ \A r \in Runs :
          /\ Len(worlds[r]) = Len(entry[r])
          /\ \A g \in GalaxyIdx(r) : GalaxyFrame(worlds[r][g]) = GalaxyFrame(entry[r][g])
    /\ returned = IF pc = "done" THEN "undefined" ELSE "none"

\* C8 witness: a call has returned that moved a galaxy carrying data and a
\* star carrying a mass and data.
C8_Witness ==
    /\ pc = "done"
    /\ \E g \in GalaxyIdx(1) :
          /\ worlds[1][g].data # NoData
          /\ worlds[1][g].pos # entry[1][g].pos
    /\ \E g \in GalaxyIdx(1) : \E s \in StarIdx(1, g) :
          /\ worlds[1][g].stars[s].mass # Whole(0)
          /\ worlds[1][g].stars[s].data # NoData
          /\ worlds[1][g].stars[s].pos # entry[1][g].stars[s].pos

\* C9: with minStarCount = maxStarCount = N, an integer N >= 0, the galaxy
\* createRandomGalaxy returns has exactly N stars, whatever the draws.
C9_StarCount ==
    (/\ gpc = "done"
     /\ IsSet(options, "minStarCount") /\ IsSet(options, "maxStarCount")
     /\ options.minStarCount = options.maxStarCount
     /\ options.minStarCount.d = 1 /\ options.minStarCount.n >= 0) =>
        Len(result[1].stars) = options.minStarCount.n

\* C9 witness: a call with minStarCount = maxStarCount = N > 0 has returned,
\* its draw for the star count not 0.
C9_Witness ==
    /\ gpc = "done"
    /\ IsSet(options, "maxStarCount")
    /\ options.minStarCount = options.maxStarCount
    /\ options.minStarCount.d = 1 /\ options.minStarCount.n > 0
    /\ rnd.count # Whole(0)

\* The real-valued starCount of a call: min + draw * (max - min) when a
\* maximum is given (and not 0), else the minimum.
DrawnStarCount ==
    LET lo == IF "minStarCount" \in DOMAIN options THEN options.minStarCount ELSE Whole(1500)
    IN  IF "maxStarCount" \in DOMAIN options /\ options.maxStarCount # Whole(0)
        THEN NumAdd(lo, NumMul(rnd.count, NumSub(options.maxStarCount, lo)))
        ELSE lo

\* C10 as claimed: when maxStarCount is given, the number of stars is the
\* drawn starCount truncated, floor(starCount).
C10_Original ==
    (gpc = "done" /\ IsSet(options, "maxStarCount")) =>
        Len(result[1].stars) = NumFloor(DrawnStarCount)

\* C10 amended: when maxStarCount is given, the number of stars is the drawn
\* starCount (at least 0) rounded up, ceil(starCount) >= starCount.
C10_StarCountCeil ==
    (gpc = "done" /\ IsSet(options, "maxStarCount")) =>
        /\ Len(result[1].stars) = NumCeil(DrawnStarCount)
        /\ ~NumLess(Whole(Len(result[1].stars)), DrawnStarCount)

\* C10 witness: a call with a maximum has returned whose drawn starCount is no
\* integer.
C10_Witness ==
    /\ gpc = "done"
    /\ IsSet(options, "maxStarCount")
    /\ DrawnStarCount.d # 1
    /\ Len(result[1].stars) > 0

\* C11: the galaxy createRandomGalaxy returns has the mass targetNumberOfStars,
\* the value of step 4 that bounds the star loop; when maxStarCount is unset
\* or equal to minStarCount = N, an integer, the mass is N and so is the
\* number of stars.
C11_MassIsStarCount ==
    gpc = "done" =>
        LET galaxy == result[1]
            lo == options.minStarCount
        IN  /\ galaxy.mass = DrawnStarCount
            /\ galaxy.mass = targetNumberOfStars
            /\ ((lo.d = 1 /\ lo.n >= 0
                 /\ (~IsSet(options, "maxStarCount") \/ options.maxStarCount = lo)) =>
                    galaxy.mass = lo /\ Len(galaxy.stars) = lo.n)

\* C11 witness: a call with a fixed count of two stars, asked for with or
\* without a maximum, has returned a galaxy of two stars.
C11_Witness ==
    /\ gpc = "done"
    /\ \/ ~IsSet(options, "maxStarCount") /\ options.minStarCount = Whole(2)
       \/ IsSet(options, "maxStarCount") /\ options.maxStarCount = options.minStarCount
          /\ options.minStarCount = Whole(2)
    /\ Len(result[1].stars) = 2

\* The distance of a local position from the galaxy's axis, in the disk plane.
PlanarDistance(p) == MathSqrt(NumAdd(NumSquare(p.x), NumSquare(p.y)))

\* a <= b
NumLeq(a, b) == NumLess(a, b) \/ (IsFinite(a) /\ a = b)

\* minGalaxyRadius = maxGalaxyRadius = R > 0
FixedRadius ==
    /\ IsSet(options, "minGalaxyRadius") /\ IsSet(options, "maxGalaxyRadius")
    /\ options.minGalaxyRadius = options.maxGalaxyRadius
    /\ NumLess(Whole(0), options.minGalaxyRadius)

\* C12: with minGalaxyRadius = maxGalaxyRadius = R > 0, every star is
\* generated at a planar distance from the galaxy centre in [0, R] and at a
\* height of at most R / 5 above or below the plane, whatever the draws.
C12_RadiusContainment ==
    FixedRadius =>
        \A k \in DOMAIN localStars :
            LET R == options.minGalaxyRadius
                p == localStars[k]
            IN  /\ NumLeq(Whole(0), PlanarDistance(p))
                /\ NumLeq(PlanarDistance(p), R)
                /\ NumLeq(NumNeg(NumDiv(R, Whole(5))), p.z)
                /\ NumLeq(p.z, NumDiv(R, Whole(5)))

\* C12 witness: a call with a fixed radius has returned a galaxy with a star
\* off the axis and off the plane, and a star below the plane.
C12_Witness ==
    /\ gpc = "done"
    /\ FixedRadius
    /\ \E k \in DOMAIN localStars :
          /\ PlanarDistance(localStars[k]) # Whole(0)
          /\ NumLess(Whole(0), localStars[k].z)
    /\ \E k \in DOMAIN localStars : NumLess(localStars[k].z, Whole(0))
    /\ \A k \in DOMAIN localStars :
          result[1].stars[k].pos = add(transform(rotationMatrix, localStars[k]), result[1].pos)

\* The calls allStars owes its visitor for the galaxies from g on: for each
\* galaxy in turn, one call for each of its stars in turn.
RECURSIVE VisitsFrom(_, _)
VisitsFrom(galaxies, g) ==
    IF g > Len(galaxies) THEN <<>>
    ELSE [s \in 1..Len(galaxies[g].stars) |->
             [star |-> galaxies[g].stars[s], galaxy |-> galaxies[g], galaxyId |-> g, index |-> s - 1]]
         \o VisitsFrom(galaxies, g + 1)

\* C13: allStars calls its visitor once for every star of every galaxy and
\* for nothing else, galaxy by galaxy and star by star in sequence order, each
\* time with the star, its galaxy and the star's index in the galaxy: at any
\* moment the calls made are the first of that list, and all of it at the end.
C13_AllStarsOrder ==
    LET owed == VisitsFrom(worlds[1], 1)
    IN  /\ Len(calls) <= Len(owed)
        /\ calls = SubSeq(owed, 1, Len(calls))
        /\ apc = "done" => calls = owed

\* C13 witness: allStars has returned from galaxies of which one without
\* stars comes before one with stars, two stars having been visited.
C13_Witness ==
    /\ apc = "done"
    /\ Len(calls) = 2
    /\ \E g \in DOMAIN worlds[1] : \E h \in DOMAIN worlds[1] :
          g < h /\ worlds[1][g].stars = <<>> /\ worlds[1][h].stars # <<>>

\* C14: new Star throws exactly when pos or vel is missing and new Galaxy
\* exactly when vel, pos or rotation is missing, and then no entity is
\* produced; otherwise the entity is produced whatever the mass, with the
\* vectors and the mass passed, a Star's mass being 0 when none is passed, and
\* with no stars and no data.
C14_Construction ==
    (ctorArgs.class # "none" /\ "pending" \notin DOMAIN made) =>
        LET a == ctorArgs
            required == IF a.class = "Star" THEN {a.pos, a.vel} ELSE {a.vel, a.pos, a.rotation}
            missing == required \cap {Undefined, Null} # {}
        IN  /\ made.threw <=> missing
            /\ made.threw => DOMAIN made = {"threw", "error"}
            /\ (~made.threw /\ a.class = "Star") =>
                  made.value = [pos |-> a.pos, vel |-> a.vel,
                                mass |-> IF a.mass = Undefined THEN Whole(0) ELSE a.mass,
                                data |-> {}]
            /\ (~made.threw /\ a.class = "Galaxy") =>
                  made.value = [vel |-> a.vel, pos |-> a.pos, rotation |-> a.rotation,
                                mass |-> a.mass, stars |-> <<>>, data |-> {}]

\* C14 witness: new Star has thrown for a position passed without a velocity.
C14_Witness ==
    /\ ctorArgs.class = "Star"
    /\ ctorArgs.pos \notin {Undefined, Null}
    /\ ctorArgs.vel = Undefined
    /\ "pending" \notin DOMAIN made
    /\ made.threw

\* C15: a call of add, sub, mul, div, normalize, copy or magnitude leaves the
\* x, y, z of every object there was, the receiver and the argument among
\* them, as they were, and a call that yields a vector returns an object that
\* was not there before, so none of its operands.
C15_ValueSemantics ==
    [][vvars' # vvars =>
          /\ DOMAIN vecs \subseteq DOMAIN vecs'
          /\ \A id \in DOMAIN vecs : vecs'[id] = vecs[id]
          /\ vcall'.op # "magnitude" =>
                /\ IsRef(vcall'.ret)
                /\ vcall'.ret.ref \in DOMAIN vecs' \ DOMAIN vecs
                /\ vcall'.ret.ref # vcall'.this
                /\ IsRef(vcall'.other) => vcall'.ret.ref # vcall'.other.ref]_vars

\* C15 witness: an object was added to itself and the sum is a third object
\* with other components.
C15_Witness ==
    /\ vcall.op = "add"
    /\ vcall.other = Ref(vcall.this)
    /\ IsRef(vcall.ret)
    /\ vecs[vcall.ret.ref] # vecs[vcall.this]

\* The public operations of a Matrix3x3 object.
MatrixOps == {"get", "set", "toArray", "transform", "mul", "toEuler"}

\* C16 as claimed: once the matrix is constructed, no public operation
\* changes its entries.
C16_Original ==
    [][(mdata # 0 /\ mcall'.op \in MatrixOps) =>
          Array2D(arrays', mdata') = Array2D(arrays, mdata)]_vars

\* C16 amended: once the matrix is constructed, get, toArray, transform, mul
\* and toEuler leave its entries as they are, and set(row, col, value) changes
\* the entry of that row and column to value and no other entry.
C16_ImmutableButSet ==
    [][(mdata # 0 /\ mcall'.op \in MatrixOps) =>
          Array2D(arrays', mdata') =
             IF mcall'.op = "set"
             THEN [Array2D(arrays, mdata) EXCEPT ![mcall'.row][mcall'.col] = mcall'.value]
             ELSE Array2D(arrays, mdata)]_vars

\* C16 witness: set has given an entry off the diagonal another value than it
\* had, which get now returns.
C16_Witness ==
    /\ mcall.op = "set"
    /\ mcall.row # mcall.col
    /\ mcall.was # mcall.value
    /\ get(arrays, mdata, mcall.row, mcall.col) = mcall.value

\* C17: a write by the caller to the array it passed to the constructor or to
\* an array toArray returned changes no entry of the matrix and no other array
\* toArray returned, and toArray returns the entries in an array that was not
\* there before.
C17_Isolation ==
    [][/\ (mdata # 0 /\ mcall'.op = "write") =>
             /\ Array2D(arrays', mdata) = Array2D(arrays, mdata)
             /\ \A k \in DOMAIN taken :
                   taken[k] # mcall'.target =>
                      Array2D(arrays', taken[k]) = Array2D(arrays, taken[k])
       /\ (mdata # 0 /\ mcall'.op = "toArray") =>
             /\ Array2D(arrays', mcall'.ret.ref) = Array2D(arrays, mdata)
             /\ mcall'.ret.ref \notin DOMAIN arrays
             /\ \A i \in 1..3 : arrays'[mcall'.ret.ref][i].ref \notin DOMAIN arrays]_vars

\* C17 witness: the caller has changed an element of the first of two arrays
\* toArray returned; the second still holds the entries of the matrix.
C17_Witness ==
    /\ Len(taken) = 2
    /\ mcall.op = "write"
    /\ mcall.target = taken[1]
    /\ Array2D(arrays, taken[1]) # Array2D(arrays, mdata)
    /\ Array2D(arrays, taken[2]) = Array2D(arrays, mdata)

\* The sum over i of M[i][j] * v_i: component j of the row vector v times M.
RowTimesMatrix(v, M, j) ==
    NumAdd(NumAdd(NumMul(M[1][j], v.x), NumMul(M[2][j], v.y)), NumMul(M[3][j], v.z))

RotationX(a) ==
    << <<Whole(1), Whole(0), Whole(0)>>,
       <<Whole(0), MathCos(a), NumNeg(MathSin(a))>>,
       <<Whole(0), MathSin(a), MathCos(a)>> >>

RotationY(a) ==
    << <<MathCos(a), Whole(0), MathSin(a)>>,
       <<Whole(0), Whole(1), Whole(0)>>,
       <<NumNeg(MathSin(a)), Whole(0), MathCos(a)>> >>

RotationZ(a) ==
    << <<MathCos(a), NumNeg(MathSin(a)), Whole(0)>>,
       <<MathSin(a), MathCos(a), Whole(0)>>,
       <<Whole(0), Whole(0), Whole(1)>> >>

\* C19: fromEuler(x, y, z) is, entry for entry, the product
\* Rz(z) * Ry(y) * Rx(x) of the elemental rotations formed with mul, at the
\* angles that are multiples of a quarter turn.
C19_FromEulerZYX ==
    (rpc = "made" /\ rargs.source = "fromEuler") =>
        rmat = Matrix3x3mul(Matrix3x3mul(RotationZ(rargs.z), RotationY(rargs.y)), RotationX(rargs.x))

\* C19 witness: a matrix has been made from three angles that are not 0 and
\* differ from each other.
C19_Witness ==
    /\ rpc = "made"
    /\ rargs.source = "fromEuler"
    /\ rargs.x = Num(1, 2) /\ rargs.y = Whole(1) /\ rargs.z = Num(3, 2)

\* Angles that are equal modulo a full turn.
SameAngle(a, b) == IsFinite(a) /\ IsFinite(b) /\ Quarter(NumSub(a, b)) = 0

C21_ZeroAngleIdentity ==
    (/\ rpc = "made"
     /\ rargs.source = "fromAxisAngle"
     /\ rargs.angle = Whole(0)
     /\ VecFinite(rargs.axis))
        => rmat = identity

\* A matrix made from the axis (1, 2, 2), whose length is 3, and the angle 0.
C21_Witness ==
    /\ rpc = "made"
    /\ rargs.source = "fromAxisAngle"
    /\ rargs.angle = Whole(0)
    /\ rargs.axis = IVec(1, 2, 2)
    /\ rmat = identity

\* A vector whose three components are NaN.
AllNaN(v) == IsNaN(v.x) /\ IsNaN(v.y) /\ IsNaN(v.z)

\* C22: normalize called on a vector of magnitude 0 returns (it has no way
\* to throw) a new object whose three components are NaN and leaves the
\* receiver as it was; and every later method call whose receiver or vector
\* argument has NaN components returns NaN again, a vector of three NaN or,
\* from magnitude, the number NaN.
C22_ZeroNormalize ==
    [][vvars' # vvars =>
          /\ (vcall'.op = "normalize" /\ magnitude(vecs[vcall'.this]) = Whole(0)) =>
                /\ IsRef(vcall'.ret)
                /\ vcall'.ret.ref \in DOMAIN vecs' \ DOMAIN vecs
                /\ AllNaN(vecs'[vcall'.ret.ref])
                /\ vecs'[vcall'.this] = vecs[vcall'.this]
          /\ (\/ AllNaN(vecs[vcall'.this])
              \/ IsRef(vcall'.other) /\ AllNaN(vecs[vcall'.other.ref])) =>
                IF vcall'.op = "magnitude" THEN IsNaN(vcall'.ret)
                ELSE AllNaN(vecs'[vcall'.ret.ref])]_vars

\* C22 witness: the zero vector was made into a second object of three NaN,
\* as normalize makes of it, a number was then added to that object, and the
\* sum is a third object of three NaN; the zero vector is still the zero
\* vector.
C22_Witness ==
    /\ vecs[1] = Vec3Zero
    /\ Len(vecs) = 3
    /\ AllNaN(vecs[2])
    /\ vcall = [op |-> "add", this |-> 2, other |-> Whole(2), ret |-> Ref(3)]
    /\ AllNaN(vecs[3])

\* The numbers of galaxies _initialiseGalaxies can make of the attributes
\* of el, over the draws.
Producible(el) == {actualGalaxyCount(el, draw) : draw \in RandomDraws}

\* C23 as it is stated: whenever the complete component has initialised its
\* galaxies, with galaxyCount <= maxGalaxyCount, their number n is an integer
\* with galaxyCount <= n <= maxGalaxyCount, every integer of that range,
\* maxGalaxyCount included, is a number the initialisation can make, and
\* with the defaults n is 3.
C23_Original ==
    (component = "complete" /\ hasUpdated /\ element.galaxyCount <= element.maxGalaxyCount) =>
        /\ element.galaxies.count \in element.galaxyCount..element.maxGalaxyCount
        /\ \A n \in element.galaxyCount..element.maxGalaxyCount : n \in Producible(element)
        /\ (element.galaxyCount = DefaultGalaxyCount
               /\ element.maxGalaxyCount = DefaultMaxGalaxyCount) => element.galaxies.count = 3

\* C29: in both components _step is in 0..1500 whenever a callback has
\* ended, no galaxy array is passed to updateGalaxies more than 1501 times,
\* and the frame that makes the 1501st call on an array leaves a new array,
\* not yet passed to updateGalaxies, and _step = 0.
C29_StepReset ==
    /\ element.step \in 0..StepLimit
    /\ hasUpdated =>
          /\ element.galaxies.updates <= StepLimit + 1
          /\ lastEvent.received <= StepLimit + 1
          /\ lastEvent.received = StepLimit + 1 =>
                (element.step = 0 /\ element.galaxies.updates = 0)

\* C29 witness: a frame made the 1501st call on an array of galaxies and
\* left a new array and _step = 0.
C29_Witness ==
    /\ lastEvent = Event("frame", StepLimit + 1, FALSE)
    /\ element.step = 0
    /\ element.galaxies.updates = 0
    /\ element.galaxies.count > 0

\* C30 as it is stated: the browser never holds two requests of the
\* component, and once disconnectedCallback has run (the element being
\* attached from the start, that is once it is detached) it holds none and
\* no callback passes the galaxies to updateGalaxies.
C30_Original ==
    /\ Cardinality(frames) <= 1
    /\ ~attached => (frames = {} /\ lastEvent.received = 0)

\* The greatest common divisor of the masses of the galaxies (whole numbers),
\* and the sum of the velocities of the galaxies of now, each weighted by
\* the galaxy's mass in that unit: the momentum, in a unit that keeps the
\* products small.
RECURSIVE MassUnit(_)
MassUnit(galaxies) ==
    IF galaxies = <<>> THEN 0 ELSE Gcd(Head(galaxies).mass.n, MassUnit(Tail(galaxies)))

RECURSIVE MomentumIn(_, _)
MomentumIn(unit, galaxies) ==
    IF galaxies = <<>> THEN Vec3Zero
    ELSE add(mul(Head(galaxies).vel, NumDiv(Head(galaxies).mass, Whole(unit))),
             MomentumIn(unit, Tail(galaxies)))

PairwiseApart(galaxies) ==
    \A g, h \in DOMAIN galaxies : g # h => galaxies[g].pos # galaxies[h].pos

\* C24: for galaxies that start at pairwise distinct positions, the sum of
\* the galaxy velocities weighted by the galaxy masses is after every call
\* what it was before the first one.
C24_Momentum ==
    (origin # <<>> /\ PairwiseApart(origin)) =>
        MomentumIn(MassUnit(origin), hosted) = MomentumIn(MassUnit(origin), origin)

\* C24 witness: two galaxies of different masses have changed each other's
\* velocity in two calls, and were apart before each.
C24_Witness ==
    /\ ncalls = 2
    /\ Len(origin) = 2
    /\ PairwiseApart(origin)
    /\ origin[1].mass # origin[2].mass
    /\ hosted[1].vel # origin[1].vel
    /\ hosted[2].vel # origin[2].vel
    /\ hosted[1].vel # hosted[2].vel

\* C25: a galaxy that is alone in the array has, after n calls, its first
\* velocity v0 and the position p0 + n * TIME_STEP * v0.
C25_LoneGalaxy ==
    Len(origin) = 1 =>
        /\ hosted[1].vel = origin[1].vel
        /\ hosted[1].pos =
              add(origin[1].pos, mul(origin[1].vel, NumMul(Whole(ncalls), TIME_STEP)))

\* C25 witness: a lone galaxy that owns a star has moved in two calls.
C25_Witness ==
    /\ Len(origin) = 1
    /\ ncalls = 2
    /\ origin[1].stars # <<>>
    /\ hosted[1].pos # origin[1].pos

\* C26: after every call the array of the second host holds the galaxies
\* and stars of the first host's array, in its own order: each galaxy and
\* each star has the same position and velocity, whichever order it was
\* updated in.
C26_OrderIndependent == shuffled = Reorder(hosted, perm)

\* C26 witness: two different galaxies that own stars, in exchanged order,
\* after a call that changed the galaxies and the stars.
C26_Witness ==
    /\ ncalls = 1
    /\ Len(hosted) = 2
    /\ perm.g = <<2, 1>>
    /\ hosted[1] # hosted[2]
    /\ hosted[1].vel # origin[1].vel
    /\ hosted[1].stars # <<>>
    /\ hosted[2].stars # <<>>
    /\ hosted[1].stars[1].vel # origin[1].stars[1].vel
    /\ shuffled = <<hosted[2], hosted[1]>>

\* C27 as it is stated: with a positive galaxy radius every star
\* createRandomGalaxy has pushed has a position and a velocity of finite
\* components, whatever the draws, a draw of 0 for the distance and for the
\* height included.
C27_Original ==
    (newGalaxy # <<>> /\ NumLess(Whole(0), galaxyRadius)) =>
        \A k \in DOMAIN newGalaxy[1].stars :
            /\ VecFinite(newGalaxy[1].stars[k].pos)
            /\ VecFinite(newGalaxy[1].stars[k].vel)

\* The entry of row i and column j of the standard product of A and B.
ProductEntry(A, B, i, j) ==
    NumAdd(NumAdd(NumMul(A[i][1], B[1][j]), NumMul(A[i][2], B[2][j])), NumMul(A[i][3], B[3][j]))

MatrixFinite(A) == \A i, j \in 1..3 : IsFinite(A[i][j])

\* C28 as it is stated: for all matrices A and B and every vector v,
\* A.mul(B).transform(v) is B.transform(A.transform(v)), and the entries of
\* A.mul(B) are those of the standard product.
C28_Original ==
    rout.op = "compose" =>
        /\ rout.ret = rout.chained
        /\ \A i, j \in 1..3 : rout.product[i][j] = ProductEntry(rmat, rout.other, i, j)

\* C28 amended: the entries of A.mul(B) are those of the standard product,
\* and for matrices A and B of finite entries and a vector v of finite
\* components A.mul(B).transform(v) is B.transform(A.transform(v)).
C28_MulThenTransform ==
    rout.op = "compose" =>
        /\ \A i, j \in 1..3 : rout.product[i][j] = ProductEntry(rmat, rout.other, i, j)
        /\ (MatrixFinite(rmat) /\ MatrixFinite(rout.other) /\ VecFinite(rargs.vec)) =>
              rout.ret = rout.chained

\* C28 witness: two matrices that do not commute were multiplied, and a
\* finite vector transformed by the product and by the one after the other.
C28_Witness ==
    /\ rout.op = "compose"
    /\ VecFinite(rargs.vec)
    /\ rargs.source = "array"
    /\ Matrix3x3mul(rmat, rout.other) # Matrix3x3mul(rout.other, rmat)
    /\ rout.ret = rout.chained
    /\ rout.ret # transform(rmat, transform(rout.other, rargs.vec))

====
